---- MODULE Spec2Model ----
(***************************************************************************)
(* Signature/n-parameter cipher subsystem of youtube-source-rs:            *)
(* SignatureCipherManager (src/src/cipher/manager.rs) with the advanced    *)
(* cipher (advanced_cipher.rs) and the fallback cipher (operations.rs).    *)
(*                                                                         *)
(* Strings are sequences of one-character strings.  A URL is represented   *)
(* by the pairs <<key, value>> of its query as they are written in the     *)
(* URL (values percent-encoded); scheme, host and path are never touched   *)
(* by the code modelled here.  An Option is a sequence of length 0 (None)  *)
(* or 1 (Some).                                                            *)
(***************************************************************************)
EXTENDS Integers, Sequences, FiniteSets, TLC

VARIABLES cached_scripts, now, fetchSeq, task, prev, calc, engine, http

vars == <<cached_scripts, now, fetchSeq, task, prev, calc, engine, http>>

(* ------------------------------ bounds -------------------------------- *)
NumTasks == 1
NumConcTasks == 2
MaxFetches == 3
MaxTime == 3600

(* ------------------------- program constants -------------------------- *)
TTL == 3600

(* granularity of the clock: two ticks make an entry stale *)
TickStep == TTL \div 2

Tasks == 1..NumTasks

(* the tasks of the overlapping calls *)
ConcTasks == 1..NumConcTasks
Urls == {"u1", "u2"}

None == <<>>
Some(x) == <<x>>
IsSome(o) == Len(o) = 1
Get(o) == o[1]

(* ------------------------------ strings ------------------------------- *)
Reverse(s) == [i \in 1..Len(s) |-> s[Len(s) + 1 - i]]

Str36 ==
  <<"a","b","c","d","e","f","g","h","i","j","k","l","m","n","o","p","q","r",
    "s","t","u","v","w","x","y","z","0","1","2","3","4","5","6","7","8","9">>

Str12 == <<"a","b","c","1","2","3","d","e","f","4","5","6">>

YtPrefix == <<"y","t","_">>

(* ----------------------- fallback cipher (operations.rs) -------------- *)
OpReverse == [op |-> "Reverse", index |-> 0]
OpSwap(i) == [op |-> "Swap", index |-> i]
OpSlice(i) == [op |-> "Slice", index |-> i]

(* variant of ApplyOperation: Slice also acts when its index is the length *)
ApplyOperationSliceAtEnd(chars, o) ==
  CASE o.op = "Reverse" -> Reverse(chars)
    [] o.op = "Swap" ->
         IF o.index < Len(chars)
           THEN [chars EXCEPT ![1] = chars[o.index + 1],
                              ![o.index + 1] = chars[1]]
           ELSE chars
    [] o.op = "Slice" ->
         IF o.index <= Len(chars)
           THEN SubSeq(chars, o.index + 1, Len(chars))
           ELSE chars

ApplyOperation(chars, o) ==
  CASE o.op = "Reverse" -> Reverse(chars)
    [] o.op = "Swap" ->
         IF o.index < Len(chars)
           THEN [chars EXCEPT ![1] = chars[o.index + 1],
                              ![o.index + 1] = chars[1]]
           ELSE chars
    [] o.op = "Slice" ->
         IF o.index < Len(chars)
           THEN SubSeq(chars, o.index + 1, Len(chars))
           ELSE chars

RECURSIVE ApplyOperations(_, _)
ApplyOperations(chars, ops) ==
  IF ops = <<>> THEN chars
  ELSE ApplyOperations(ApplyOperation(chars, Head(ops)), Tail(ops))

BasicDecipherSignature(cipher, signature) ==
  ApplyOperations(signature, cipher.operations)

BasicTransformN(n_param) == YtPrefix \o Reverse(n_param)

(* variant of parse_cipher_from_script: Swap and Slice change places *)
parse_cipher_slice_first(script) ==
  [operations |-> <<OpReverse, OpSlice(2), OpSwap(1)>>]

parse_cipher_from_script(script) ==
  [operations |-> <<OpReverse, OpSwap(1), OpSlice(2)>>]

(* ------------------------ URL reconstruction -------------------------- *)
RECURSIVE Retain(_, _)
Retain(pairs, key) ==
  IF pairs = <<>> THEN <<>>
  ELSE IF Head(pairs)[1] = key THEN Retain(Tail(pairs), key)
       ELSE <<Head(pairs)>> \o Retain(Tail(pairs), key)

(* A value as written in a URL is a sequence of characters and escapes;   *)
(* "%20" and "%2B" stand for the three-character escapes, "+" for the       *)
(* form encoding of a space.  Keys are plain identifiers, which both       *)
(* conversions leave as they are.                                          *)
DecodeChar(c) ==
  CASE c = "+" -> " "
    [] c = "%20" -> " "
    [] c = "%2B" -> "+"
    [] OTHER -> c

EncodeChar(c) ==
  CASE c = " " -> "%20"
    [] c = "+" -> "%2B"
    [] OTHER -> c

(* Url::query_pairs: the pairs of the query, decoded *)
query_pairs(url) ==
  [i \in 1..Len(url) |->
     <<url[i][1], [j \in 1..Len(url[i][2]) |-> DecodeChar(url[i][2][j])]>>]

(* urlencoding::encode of every pair, joined by & and set as the query *)
set_query(pairs) ==
  [i \in 1..Len(pairs) |->
     <<pairs[i][1], [j \in 1..Len(pairs[i][2]) |-> EncodeChar(pairs[i][2][j])]>>]

build_url_with_signature(format, signature) ==
  IF IsSome(format.signature_key)
    THEN set_query(Append(query_pairs(format.url),
                          <<Get(format.signature_key), signature>>))
    ELSE format.url

(* variant of add_n_parameter_to_url: existing n parameters are kept *)
add_n_parameter_appends(url, n_value) ==
  set_query(Append(query_pairs(url), <<"n", n_value>>))

add_n_parameter_to_url(url, n_value) ==
  set_query(Append(Retain(query_pairs(url), "n"), <<"n", n_value>>))

Ok(v) == [ok |-> TRUE, err |-> "", val |-> v]
Err(e) == [ok |-> FALSE, err |-> e, val |-> <<>>]

BasicDecipherUrl(cipher, format) ==
  LET url1 == IF IsSome(format.signature)
                THEN build_url_with_signature(format,
                       BasicDecipherSignature(cipher, Get(format.signature)))
                ELSE format.url
      url2 == IF IsSome(format.n_parameter)
                THEN add_n_parameter_to_url(url1,
                       BasicTransformN(Get(format.n_parameter)))
                ELSE url1
  IN Ok(url2)

(* ------------------- player scripts and the engine -------------------- *)
(* good:    all fragments present, transforms defined for every input      *)
(* fragile: all fragments present, sig function throws on inputs shorter   *)
(*          than two characters (passes the self-test samples)             *)
(* broken:  all fragments present, sig function throws on every input      *)
(* nofn:    a fragment is missing, extraction fails                        *)
Scripts == {"good", "fragile", "broken", "nofn"}

extract_cipher_from_script(script) ==
  IF script = "nofn" THEN Err("extraction") ELSE Ok(script)

JsChain(s) ==
  LET r == Reverse(s)
  IN IF Len(r) <= 2 THEN <<>>
     ELSE SubSeq([r EXCEPT ![1] = r[2], ![2] = r[1]], 3, Len(r))

decipher_signature(extracted, signature) ==
  CASE extracted = "good" -> Ok(JsChain(signature))
    [] extracted = "fragile" ->
         IF Len(signature) < 2 THEN Err("engine") ELSE Ok(JsChain(signature))
    [] OTHER -> Err("engine")

transform_n_parameter(extracted, n_param) ==
  Ok(YtPrefix \o Reverse(n_param))

(* variant of test_cipher: the samples are not run *)
test_cipher_skipped(extracted) == Ok(<<>>)

test_cipher(extracted) ==
  LET r == decipher_signature(extracted, Str36)
  IN IF ~r.ok THEN Err("selftest")
     ELSE LET n == transform_n_parameter(extracted, Str12)
          IN IF ~n.ok THEN Err("selftest") ELSE Ok(<<>>)

AdvDecipherUrl(adv, format) ==
  LET sig == IF IsSome(format.signature)
               THEN decipher_signature(adv.extracted, Get(format.signature))
               ELSE Ok(<<>>)
      url1 == IF IsSome(format.signature)
                THEN build_url_with_signature(format, sig.val)
                ELSE format.url
      nres == IF IsSome(format.n_parameter)
                THEN transform_n_parameter(adv.extracted, Get(format.n_parameter))
                ELSE Ok(<<>>)
      url2 == IF IsSome(format.n_parameter)
                THEN add_n_parameter_to_url(url1, nres.val)
                ELSE url1
  IN IF ~sig.ok THEN Err(sig.err)
     ELSE IF ~nres.ok THEN Err(nres.err)
     ELSE Ok(url2)

(* ------------------------------ formats ------------------------------- *)
BaseUrl == << <<"itag", <<"1">> >>, <<"n", <<"o">> >> >>

(* the format of the resolve_format_url calls of the manager; formats of   *)
(* every shape are applied to the ciphers directly in UrlFormats           *)
Formats ==
  { [url |-> BaseUrl, signature |-> Some(<<"a">>), signature_key |-> Some("sig"),
     n_parameter |-> Some(<<"x","y">>)] }

NoFormat == [url |-> <<>>, signature |-> None, signature_key |-> None,
             n_parameter |-> None]

(* ------------------------------- cache -------------------------------- *)
(* CachedPlayerScript; advanced_cipher carries, besides the extracted      *)
(* cipher it was built from, the number of the fetch that produced it.     *)
CachedPlayerScript(script, cipher, adv, ext, at) ==
  [script_content |-> script, cipher |-> cipher, advanced_cipher |-> adv,
   extracted_cipher |-> ext, cached_at |-> at]

Elapsed(cached_at, time) == IF time >= cached_at THEN time - cached_at ELSE 0

(* variant of IsValid: the boundary age counts as valid *)
IsValidInclusive(cached, time) == Elapsed(cached.cached_at, time) <= TTL

IsValid(cached, time) == Elapsed(cached.cached_at, time) < TTL

IsExpired(cached, time) == Elapsed(cached.cached_at, time) >= TTL

Present(cache, u) == IsSome(cache[u])

(* variant of CacheStats: an entry expires only after the boundary age *)
CacheStatsLateExpiry(cache, time) ==
  LET total_entries == Cardinality({u \in Urls : Present(cache, u)})
      advanced_cipher_entries ==
        Cardinality({u \in Urls : Present(cache, u)
                                  /\ IsSome(Get(cache[u]).advanced_cipher)})
      expired_entries ==
        Cardinality({u \in Urls : Present(cache, u)
                       /\ Elapsed(Get(cache[u]).cached_at, time) > TTL})
  IN [total_entries |-> total_entries,
      advanced_cipher_entries |-> advanced_cipher_entries,
      basic_cipher_entries |-> total_entries - advanced_cipher_entries,
      expired_entries |-> expired_entries]

CacheStats(cache, time) ==
  LET total_entries == Cardinality({u \in Urls : Present(cache, u)})
      advanced_cipher_entries ==
        Cardinality({u \in Urls : Present(cache, u)
                                  /\ IsSome(Get(cache[u]).advanced_cipher)})
      expired_entries ==
        Cardinality({u \in Urls : Present(cache, u)
                                  /\ IsExpired(Get(cache[u]), time)})
  IN [total_entries |-> total_entries,
      advanced_cipher_entries |-> advanced_cipher_entries,
      basic_cipher_entries |-> total_entries - advanced_cipher_entries,
      expired_entries |-> expired_entries]

(* variant of Retained: the boundary age is kept *)
RetainedInclusive(cache, time) ==
  [u \in Urls |-> IF Present(cache, u)
                     /\ Elapsed(Get(cache[u]).cached_at, time) <= TTL
                    THEN cache[u] ELSE None]

(* variant of Retained: the retain predicate is inverted *)
RetainedInverted(cache, time) ==
  [u \in Urls |-> IF Present(cache, u) /\ ~IsValid(Get(cache[u]), time)
                    THEN cache[u] ELSE None]

Retained(cache, time) ==
  [u \in Urls |-> IF Present(cache, u) /\ IsValid(Get(cache[u]), time)
                    THEN cache[u] ELSE None]

(* variant of Removed: the entry is left in place *)
NotRemoved(cache, url) == cache

Removed(cache, url) == [cache EXCEPT ![url] = None]

(* ------------------------------- tasks -------------------------------- *)
(* A task is one call of a public async operation.  The futures are not   *)
(* Send (the cache holds a QuickJS runtime), so the code between two       *)
(* awaits runs without interleaving; the only suspension points are the    *)
(* two script fetches.  pc names the await the call is suspended on.       *)
(* log lists the outcomes of the fetches of the call, path tells where     *)
(* the returned cipher came from, built is the advanced cipher the call    *)
(* constructed, script_content the text the last fetch returned, removed    *)
(* whether the remove of refresh_script found an entry, uncached whether   *)
(* the first lookup of the call found no entry for its URL.                *)
IdleTask == [pc |-> "idle", op |-> "", url |-> "", fmt |-> NoFormat,
             log |-> <<>>, script_content |-> None, path |-> "",
             built |-> None, removed |-> FALSE, uncached |-> FALSE,
             res |-> Ok(<<>>)]

(* the operations that can suspend on a fetch *)
Ops == {"resolve_format_url", "get_cipher", "get_advanced_cipher",
        "refresh_script"}

FormatsOf(o) == IF o = "resolve_format_url" THEN Formats ELSE {NoFormat}

(* get_cipher returns r to its caller (manager.rs:49-50, 63, 69, 87) *)
GcReturn(tk, r) ==
  [tk EXCEPT !.pc = "done",
             !.res = IF tk.op = "resolve_format_url" /\ r.ok
                       THEN BasicDecipherUrl(r.val, tk.fmt)
                       ELSE r]

(* get_cipher up to its first await (manager.rs:55-69) *)
GcEnter(tk, cache, time) ==
  IF Present(cache, tk.url) /\ IsValid(Get(cache[tk.url]), time)
    THEN GcReturn([tk EXCEPT !.path = "basic_cached"],
                  Ok(Get(cache[tk.url]).cipher))
    ELSE [tk EXCEPT !.pc = "gc_fetch"]

(* variant of AdvReturn: a failed refresh_script falls back to get_cipher *)
AdvReturnRefreshFallsBack(tk, r, cache, time) ==
  CASE tk.op \in {"resolve_format_url", "refresh_script"} ->
         IF r.ok
           THEN [tk EXCEPT !.pc = "done",
                           !.res = IF tk.op = "refresh_script" THEN Ok(<<>>)
                                   ELSE AdvDecipherUrl(r.val, tk.fmt)]
           ELSE GcEnter(tk, cache, time)
    [] OTHER -> [tk EXCEPT !.pc = "done", !.res = r]

(* get_advanced_cipher returns r to its caller (manager.rs:44-51, 218-221) *)
AdvReturn(tk, r, cache, time) ==
  CASE tk.op = "resolve_format_url" ->
         IF r.ok
           THEN [tk EXCEPT !.pc = "done",
                           !.res = AdvDecipherUrl(r.val, tk.fmt)]
           ELSE GcEnter(tk, cache, time)
    [] tk.op = "refresh_script" ->
         [tk EXCEPT !.pc = "done", !.res = IF r.ok THEN Ok(<<>>) ELSE r]
    [] OTHER -> [tk EXCEPT !.pc = "done", !.res = r]

(* get_advanced_cipher up to its first await (manager.rs:94-111) *)
AdvEnter(tk, cache, time) ==
  IF /\ Present(cache, tk.url)
     /\ IsValid(Get(cache[tk.url]), time)
     /\ IsSome(Get(cache[tk.url]).advanced_cipher)
    THEN AdvReturn([tk EXCEPT !.path = "advanced_cached"],
                   Ok(Get(Get(cache[tk.url]).advanced_cipher)), cache, time)
    ELSE [tk EXCEPT !.pc = "adv_fetch"]

(* variant of AdvStore: updating an entry keeps its old cached_at *)
AdvStoreKeepsStamp(cache, url, script_content, adv, time) ==
  IF Present(cache, url)
    THEN [cache EXCEPT ![url] =
            Some([Get(@) EXCEPT !.advanced_cipher = Some(adv),
                                !.extracted_cipher = Some(adv.extracted)])]
    ELSE [cache EXCEPT ![url] =
            Some(CachedPlayerScript(script_content,
                                    parse_cipher_from_script(script_content),
                                    Some(adv), Some(adv.extracted), time))]

(* the cache write of get_advanced_cipher (manager.rs:119-142) *)
AdvStore(cache, url, script_content, adv, time) ==
  IF Present(cache, url)
    THEN [cache EXCEPT ![url] =
            Some([Get(@) EXCEPT !.advanced_cipher = Some(adv),
                                !.extracted_cipher = Some(adv.extracted),
                                !.cached_at = time])]
    ELSE [cache EXCEPT ![url] =
            Some(CachedPlayerScript(script_content,
                                    parse_cipher_from_script(script_content),
                                    Some(adv), Some(adv.extracted), time))]

(* the cache write of get_cipher (manager.rs:72-85) *)
GcStore(cache, url, script_content, cipher, time) ==
  [cache EXCEPT ![url] =
     Some(CachedPlayerScript(script_content, cipher, None, None, time))]

(* get_advanced_cipher after the fetch (manager.rs:111-117): the first     *)
(* failing step decides the error.  An error is named after the step that  *)
(* raised it: network (fetch), extraction (parser), engine (creating the   *)
(* runtime, or a transform applied to a format), selftest (a transform     *)
(* applied to the self-test samples).                                      *)
AdvBuild(fetched, engine_ok, serial) ==
  IF ~fetched.ok THEN fetched
  ELSE LET ext == extract_cipher_from_script(fetched.val)
       IN IF ~ext.ok THEN ext
          ELSE IF ~engine_ok THEN Err("engine")
          ELSE LET tested == test_cipher(ext.val)
               IN IF ~tested.ok THEN tested
                  ELSE Ok([extracted |-> ext.val, serial |-> serial])

FetchResults == {Err("network")} \cup {Ok(s) : s \in Scripts}

(* calc holds one application of a pure function of the cipher: the       *)
(* function, its input and, once applied, its result                      *)
NoCalc == [fn |-> "", input |-> <<>>, out |-> None]

(* JavaScript values *)
Undefined == [type |-> "undefined"]
JsString(chars) == [type |-> "string", chars |-> chars]
JsNumber == [type |-> "number"]
JsFunction(body) == [type |-> "function", body |-> body]

(* the global object of a context: the names a script of the model can     *)
(* bind, next to the intrinsics                                            *)
EmptyGlobals == [leak |-> Undefined, f |-> Undefined]

NoCall == [method |-> "", script |-> <<>>, function_name |-> "", argument |-> <<>>]

(* JavaScriptEngine::new: a runtime without a context.  context tells      *)
(* whether the call has got its context; while the call runs, globals is   *)
(* the global object of that context; garbage is the global object of the  *)
(* context dropped last.                                                   *)
NewEngine == [pc |-> "idle", call |-> NoCall, context |-> FALSE,
              globals |-> EmptyGlobals,
              function |-> Undefined, result |-> Undefined, out |-> None,
              elapsed |-> 0, warned |-> FALSE, garbage |-> EmptyGlobals]

(* http holds the part of the HTTP layer a specification is about *)
NoHttp == [component |-> ""]

NoStats == [total_entries |-> 0, advanced_cipher_entries |-> 0,
            basic_cipher_entries |-> 0, expired_entries |-> 0]

Init ==
  /\ cached_scripts = [u \in Urls |-> None]
  /\ now = 0
  /\ fetchSeq = 0
  /\ task = [t \in Tasks |-> IdleTask]
  /\ prev = IdleTask
  /\ calc = NoCalc
  /\ engine = NewEngine
  /\ http = NoHttp

AllIdle == \A t \in Tasks : task[t].pc = "idle"

(* a caller starts an operation; it runs up to its first await *)
Call(t, o, u, f) ==
  /\ task[t].pc = "idle"
  /\ LET cache == IF o = "refresh_script" THEN Removed(cached_scripts, u)
                  ELSE cached_scripts
         tk == [IdleTask EXCEPT !.op = o, !.url = u, !.fmt = f,
                                !.removed = o = "refresh_script"
                                            /\ Present(cached_scripts, u),
                                !.uncached = ~Present(cache, u)]
     IN /\ cached_scripts' = cache
        /\ task' = [task EXCEPT ![t] =
                      IF o = "get_cipher" THEN GcEnter(tk, cache, now)
                      ELSE AdvEnter(tk, cache, now)]
  /\ UNCHANGED <<now, fetchSeq, prev, calc, engine, http>>

(* the fetch of get_advanced_cipher completes; the call runs on to its     *)
(* next await or to its end                                                *)
AdvFetch(t, fetched, engine_ok) ==
  /\ task[t].pc = "adv_fetch"
  /\ fetchSeq < MaxFetches
  /\ fetchSeq' = fetchSeq + 1
  /\ LET built == AdvBuild(fetched, engine_ok, fetchSeq + 1)
         tk == [task[t] EXCEPT !.log = Append(@, fetched.ok),
                               !.script_content =
                                  IF fetched.ok THEN Some(fetched.val) ELSE @,
                               !.path = IF built.ok THEN "advanced_built" ELSE @,
                               !.built = IF built.ok THEN Some(built.val) ELSE @]
         cache == IF built.ok
                    THEN AdvStore(cached_scripts, tk.url, fetched.val,
                                  built.val, now)
                    ELSE cached_scripts
     IN /\ cached_scripts' = cache
        /\ task' = [task EXCEPT ![t] = AdvReturn(tk, built, cache, now)]
  /\ UNCHANGED <<now, prev, calc, engine, http>>

(* the fetch of get_cipher completes (manager.rs:69-87) *)
GcFetch(t, fetched) ==
  /\ task[t].pc = "gc_fetch"
  /\ fetchSeq < MaxFetches
  /\ fetchSeq' = fetchSeq + 1
  /\ LET tk == [task[t] EXCEPT !.log = Append(@, fetched.ok),
                               !.script_content =
                                  IF fetched.ok THEN Some(fetched.val) ELSE @,
                               !.path = IF fetched.ok THEN "basic_built" ELSE @]
     IN IF fetched.ok
          THEN LET cipher == parse_cipher_from_script(fetched.val)
               IN /\ cached_scripts' = GcStore(cached_scripts, tk.url,
                                               fetched.val, cipher, now)
                  /\ task' = [task EXCEPT ![t] = GcReturn(tk, Ok(cipher))]
          ELSE /\ cached_scripts' = cached_scripts
               /\ task' = [task EXCEPT ![t] = GcReturn(tk, fetched)]
  /\ UNCHANGED <<now, prev, calc, engine, http>>

(* the caller takes the result of a finished call; prev is the call that  *)
(* returned last, as long as no time has passed since (its result is       *)
(* kept for the two operations whose result a later call is compared to)   *)
Return(t) ==
  /\ task[t].pc = "done"
  /\ prev' = IF task[t].op \in {"resolve_format_url", "refresh_script"}
               THEN [IdleTask EXCEPT !.op = task[t].op, !.url = task[t].url,
                                     !.fmt = task[t].fmt, !.res = task[t].res,
                                     !.built = task[t].built]
               ELSE [IdleTask EXCEPT !.op = task[t].op, !.url = task[t].url]
  /\ task' = [task EXCEPT ![t] = IdleTask]
  /\ UNCHANGED <<cached_scripts, now, fetchSeq, calc, engine, http>>

(* cleanup_cache never suspends; it reports the number of entries it     *)
(* cleaned up (manager.rs:192-205)                                         *)
CleanupCache(t) ==
  /\ task[t].pc = "idle"
  /\ cached_scripts' = Retained(cached_scripts, now)
  /\ LET before_count == CacheStats(cached_scripts, now).total_entries
         after_count ==
           CacheStats(Retained(cached_scripts, now), now).total_entries
     IN task' = [task EXCEPT ![t] =
                   [IdleTask EXCEPT !.pc = "done", !.op = "cleanup_cache",
                                    !.res = Ok(before_count - after_count)]]
  /\ UNCHANGED <<now, fetchSeq, prev, calc, engine, http>>

(* get_cache_stats never suspends (manager.rs:171-189) *)
GetCacheStats(t) ==
  /\ task[t].pc = "idle"
  /\ task' = [task EXCEPT ![t] =
                [IdleTask EXCEPT !.pc = "done", !.op = "get_cache_stats",
                                 !.res = Ok(CacheStats(cached_scripts, now))]]
  /\ UNCHANGED <<cached_scripts, now, fetchSeq, prev, calc, engine, http>>

(* time passes; a finished call is returned at the instant it finishes *)
Tick ==
  /\ now + TickStep <= MaxTime
  /\ \A t \in Tasks : task[t].pc # "done"
  /\ now' = now + TickStep
  /\ prev' = IdleTask
  /\ UNCHANGED <<cached_scripts, fetchSeq, task, calc, engine, http>>

(* calls that do not overlap: an operation starts when no call is pending *)
SeqCall(o, u, f) == AllIdle /\ Call(1, o, u, f)

SeqCleanupCache == AllIdle /\ CleanupCache(1)

SeqGetCacheStats == AllIdle /\ GetCacheStats(1)

Next ==
  \/ \E o \in Ops, u \in Urls : \E f \in FormatsOf(o) : SeqCall(o, u, f)
  \/ \E t \in Tasks, r \in FetchResults, e \in BOOLEAN : AdvFetch(t, r, e)
  \/ \E t \in Tasks, r \in FetchResults : GcFetch(t, r)
  \/ \E t \in Tasks : Return(t)
  \/ SeqCleanupCache
  \/ SeqGetCacheStats
  \/ Tick

Spec == Init /\ [][Next]_vars

TypeOK ==
  /\ now \in 0..MaxTime
  /\ fetchSeq \in 0..MaxFetches
  /\ \A t \in DOMAIN task :
       task[t].pc \in {"idle", "adv_fetch", "gc_fetch", "done", "dropped"}

(* ------------------------- shorthands of the claims ------------------- *)
Done(t, o) == task[t].pc = "done" /\ task[t].op = o

Age(u) == now - Get(cached_scripts[u]).cached_at

Stale(u) == Present(cached_scripts, u) /\ Age(u) >= TTL

Fresh(u) == Present(cached_scripts, u) /\ Age(u) < TTL

Starts(t, o) == task[t].pc = "idle" /\ task'[t].op = o

AllFetchesOk(t) == \A i \in 1..Len(task[t].log) : task[t].log[i]

(* C1: whenever no script fetch of the call fails, resolve_format_url      *)
(* returns a URL and never an error (a failure of the advanced cipher,     *)
(* while it is built or while a cached one is applied, is recovered by     *)
(* the fallback cipher).                                                   *)
C1_ResolveRecoversCipherFailures ==
  \A t \in Tasks :
    Done(t, "resolve_format_url") /\ AllFetchesOk(t) => task[t].res.ok

(* C2: if the script fetch of resolve_format_url fails, the call returns   *)
(* that network error and produces no URL.                                 *)
C2_FetchFailureIsReturned ==
  \A t \in Tasks :
    Done(t, "resolve_format_url") /\ Len(task[t].log) >= 1 /\ ~task[t].log[1]
      => task[t].res = Err("network")

(* C3: two resolve_format_url calls in immediate succession for the same   *)
(* script URL and format return the same URL, and the second performs no   *)
(* script fetch, whatever entry the first call left in the cache.          *)
C3_ResolveIdempotentNoRefetch ==
  \A t \in Tasks :
    /\ Done(t, "resolve_format_url")
    /\ prev.op = "resolve_format_url"
    /\ prev.url = task[t].url
    /\ prev.fmt = task[t].fmt
    /\ prev.res.ok
    => task[t].res = prev.res /\ task[t].log = <<>>

(* C4: a resolve_format_url call whose fetch succeeded makes no second     *)
(* fetch: the fallback is built for the text already fetched.              *)
C4_ResolveFetchesAtMostOnce ==
  \A t \in Tasks :
    /\ task[t].op = "resolve_format_url"
    /\ Len(task[t].log) >= 1
    /\ task[t].log[1]
    => Len(task[t].log) <= 1

CachedPaths == {"basic_cached", "advanced_cached"}

LooksUp(t) ==
  /\ task[t].pc = "idle"
  /\ task'[t].pc # "idle"
  /\ task'[t].op \in {"get_cipher", "get_advanced_cipher"}

(* C5: get_cipher and get_advanced_cipher serve a cipher from the cache    *)
(* only when the entry is younger than the TTL of 3600 s; an entry of age  *)
(* 3600 s or more is not served, and looking it up does not remove it.     *)
C5_ServedOnlyWhileFresh ==
  [][\A t \in Tasks :
       /\ task'[t].path \in CachedPaths /\ task[t].path \notin CachedPaths
            => /\ Present(cached_scripts, task'[t].url)
               /\ now - Get(cached_scripts[task'[t].url]).cached_at < 3600
       /\ LooksUp(t) /\ Stale(task'[t].url)
            => /\ task'[t].pc \in {"adv_fetch", "gc_fetch"}
               /\ task'[t].path \notin CachedPaths
               /\ cached_scripts' = cached_scripts]_vars

C5_Witness ==
  \E t \in Tasks :
    /\ task[t].pc \in {"adv_fetch", "gc_fetch"}
    /\ task[t].op \in {"get_cipher", "get_advanced_cipher"}
    /\ Present(cached_scripts, task[t].url)
    /\ Age(task[t].url) = 3600
    /\ IsSome(Get(cached_scripts[task[t].url]).advanced_cipher)

(* C6: cleanup_cache removes exactly the entries whose age is at least the *)
(* TTL and leaves every fresh entry unchanged; with no stale entry it      *)
(* changes nothing; a get_cache_stats right after it reports no stale      *)
(* entry.                                                                  *)
C6_CleanupRemovesExactlyStale ==
  [][\A t \in Tasks :
       /\ Starts(t, "cleanup_cache")
            => /\ \A u \in Urls :
                    cached_scripts'[u] =
                      IF Stale(u) THEN None ELSE cached_scripts[u]
               /\ (\A u \in Urls : ~Stale(u))
                    => cached_scripts' = cached_scripts
               /\ task'[t].pc = "done"
       /\ Starts(t, "get_cache_stats") /\ prev.op = "cleanup_cache"
            => task'[t].res.val.expired_entries = 0]_vars

C6_Witness ==
  \E t \in Tasks :
    /\ Done(t, "cleanup_cache")
    /\ task[t].res.val = 1
    /\ \E u \in Urls : Fresh(u) /\ Age(u) > 0

(* C7: a key that is present and fresh never becomes absent.               *)
C7_FreshNeverRemoved ==
  [][\A u \in Urls : Fresh(u) => Present(cached_scripts', u)]_vars

StartsRefresh(t, u) ==
  /\ task[t].pc = "idle"
  /\ task'[t].op = "refresh_script"
  /\ task'[t].url = u

(* C7 as amended: a key leaves the cache only by cleanup_cache, when it is *)
(* stale, or by a refresh_script call for that key, which evicts it fresh  *)
(* or stale; no other step removes a key.                                  *)
C7_RemovedOnlyByCleanupOrRefresh ==
  [][\A u \in Urls :
       Present(cached_scripts, u) /\ ~Present(cached_scripts', u)
         => \/ \E t \in Tasks : Starts(t, "cleanup_cache") /\ Stale(u)
            \/ \E t \in Tasks : StartsRefresh(t, u)]_vars

C7_Witness ==
  \E t \in Tasks :
    /\ Done(t, "refresh_script")
    /\ ~task[t].res.ok
    /\ task[t].removed
    /\ now = 0
    /\ ~Present(cached_scripts, task[t].url)

(* C8: get_cache_stats leaves the cache alone and returns the number of    *)
(* keys, the number of entries with an advanced cipher, the difference of  *)
(* the two, and the number of entries of age 3600 s or more; before the    *)
(* first fetch all four are 0.                                             *)
C8_StatsAreCounts ==
  [][\A t \in Tasks : Starts(t, "get_cache_stats") =>
       LET keys == {u \in Urls : cached_scripts[u] # None}
           adv == {u \in keys : Get(cached_scripts[u]).advanced_cipher # None}
           old == {u \in keys : now - Get(cached_scripts[u]).cached_at >= 3600}
           st == task'[t].res.val
       IN /\ cached_scripts' = cached_scripts
          /\ st.total_entries = Cardinality(keys)
          /\ st.advanced_cipher_entries = Cardinality(adv)
          /\ st.basic_cipher_entries = Cardinality(keys \ adv)
          /\ st.expired_entries = Cardinality(old)
          /\ st.advanced_cipher_entries + st.basic_cipher_entries
               = st.total_entries
          /\ st.expired_entries <= st.total_entries
          /\ fetchSeq = 0 => st = NoStats]_vars

C8_Witness ==
  \E t \in Tasks :
  /\ Done(t, "get_cache_stats")
  /\ task[t].res.val = [total_entries |-> 2, advanced_cipher_entries |-> 1,
                    basic_cipher_entries |-> 1, expired_entries |-> 1]

(* C9: refresh_script(url) always evicts the entry of url and goes on to   *)
(* fetch, also when a fresh entry with an advanced cipher is cached; a     *)
(* get_advanced_cipher(url) right after a successful refresh_script(url)   *)
(* returns, without fetching, the cipher that refresh built.               *)
C9_RefreshEvictsAndRebuilds ==
  [][\A t \in Tasks :
       /\ task[t].pc = "idle" /\ task'[t].op = "refresh_script"
            => /\ task'[t].pc = "adv_fetch"
               /\ cached_scripts' =
                    [cached_scripts EXCEPT ![task'[t].url] = None]
       /\ task[t].pc = "adv_fetch" /\ task'[t] # task[t]
            /\ task'[t].op = "refresh_script" /\ task'[t].res.ok
            => /\ task'[t].pc = "done"
               /\ fetchSeq' = fetchSeq + 1
               /\ task'[t].built = Some([extracted |-> Get(task'[t].script_content),
                                         serial |-> fetchSeq'])
       /\ /\ task[t].pc = "idle"
          /\ task'[t].op = "get_advanced_cipher"
          /\ prev.op = "refresh_script"
          /\ prev.url = task'[t].url
          /\ prev.res.ok
          => /\ task'[t].pc = "done"
             /\ task'[t].res = Ok(Get(prev.built))
             /\ fetchSeq' = fetchSeq]_vars

C9_Witness ==
  \E t \in Tasks :
    /\ Done(t, "get_advanced_cipher")
    /\ prev.op = "refresh_script"
    /\ prev.url = task[t].url
    /\ prev.res.ok
    /\ task[t].res.ok
    /\ task[t].res.val.serial = 2
    /\ now = 0

(* C10: get_advanced_cipher returns the cached advanced cipher without     *)
(* fetching when the entry is fresh and holds one; otherwise it fetches,   *)
(* parses, constructs and self-tests in that order; on success the entry   *)
(* of url holds the returned cipher and the time of the write (an          *)
(* existing entry is updated, else one is inserted); on any failure the    *)
(* cache is unchanged.                                                     *)
C10_GetAdvancedCipher ==
  [][\A t \in Tasks :
       task'[t].op = "get_advanced_cipher" =>
         LET tk == task'[t]
             u == tk.url
             hit == Fresh(u) /\ Get(cached_scripts[u]).advanced_cipher # None
         IN /\ task[t].pc = "idle" /\ hit
                 => /\ tk.pc = "done"
                    /\ tk.res = Ok(Get(Get(cached_scripts[u]).advanced_cipher))
                    /\ fetchSeq' = fetchSeq
                    /\ cached_scripts' = cached_scripts
            /\ task[t].pc = "idle" /\ ~hit
                 => tk.pc = "adv_fetch" /\ cached_scripts' = cached_scripts
            /\ task[t].pc = "adv_fetch" /\ tk # task[t]
                 => /\ tk.pc = "done"
                    /\ fetchSeq' = fetchSeq + 1
                    /\ ~tk.log[1] => tk.res = Err("network")
                    /\ tk.script_content = Some("nofn")
                         => tk.res = Err("extraction")
                    /\ tk.script_content = Some("broken")
                         => tk.res \in {Err("engine"), Err("selftest")}
                    /\ tk.res.err = "selftest"
                         => tk.script_content = Some("broken")
                    /\ ~tk.res.ok => cached_scripts' = cached_scripts
                    /\ tk.res.ok
                         => /\ tk.res.val.extracted = Get(tk.script_content)
                            /\ \A v \in Urls \ {u} :
                                 cached_scripts'[v] = cached_scripts[v]
                            /\ Present(cached_scripts', u)
                            /\ LET new == Get(cached_scripts'[u])
                               IN /\ new.advanced_cipher = Some(tk.res.val)
                                  /\ new.cached_at = now'
                                  /\ IF Present(cached_scripts, u)
                                       THEN new.script_content =
                                              Get(cached_scripts[u]).script_content
                                       ELSE new.script_content =
                                              Get(tk.script_content)]_vars

C10_Witness ==
  \E t \in Tasks :
    /\ Done(t, "get_advanced_cipher")
    /\ task[t].path = "advanced_built"
    /\ Present(cached_scripts, task[t].url)
    /\ Get(cached_scripts[task[t].url]).script_content
         # Get(task[t].script_content)
    /\ Get(cached_scripts[task[t].url]).cached_at = 3600

(* ------------------------ overlapping calls ---------------------------- *)
(* Calls of several tasks for one script URL, interleaved at their awaits. *)
ConcUrl == "u1"

ConcFormat == [url |-> BaseUrl, signature |-> Some(<<"a", "b", "c", "d">>),
               signature_key |-> Some("sig"), n_parameter |-> Some(<<"x", "y">>)]

ConcFormatsOf(o) == IF o = "resolve_format_url" THEN {ConcFormat} ELSE {NoFormat}

(* a fetch fails or returns the one text the URL serves; the advanced      *)
(* cipher of that text can still fail to build, when no engine is created  *)
ConcFetchResults == {Err("network"), Ok("good")}

FetchPcs == {"adv_fetch", "gc_fetch"}

(* variant of Guard: the read guard of the lookup lives until the fetch *)
GuardOverFetch(pc) == IF pc \in FetchPcs THEN "read" ELSE "none"

(* the guard of cached_scripts a call holds while it is at pc: every       *)
(* guard is a local of a block or of a function without awaits, and is     *)
(* dropped before the call suspends or returns                             *)
Guard(pc) == "none"

(* std::sync::RwLock: read() needs no writer, write() needs no holder *)
CanRead(t) == \A other \in ConcTasks \ {t} : Guard(task[other].pc) # "write"

CanWrite(t) == \A other \in ConcTasks \ {t} : Guard(task[other].pc) = "none"

ConcCall(t, o, f) ==
  /\ IF o = "refresh_script" THEN CanWrite(t) ELSE CanRead(t)
  /\ Call(t, o, ConcUrl, f)

ConcAdvFetch(t, fetched, engine_ok) ==
  CanWrite(t) /\ AdvFetch(t, fetched, engine_ok)

ConcGcFetch(t, fetched) == CanWrite(t) /\ GcFetch(t, fetched)

ConcCleanupCache(t) == CanWrite(t) /\ CleanupCache(t)

ConcGetCacheStats(t) == CanRead(t) /\ GetCacheStats(t)

(* the caller takes the result of a finished call, or goes on after it   *)
(* dropped one                                                             *)
ConcReturn(t) ==
  /\ task[t].pc \in {"done", "dropped"}
  /\ task' = [task EXCEPT ![t] = IdleTask]
  /\ UNCHANGED <<cached_scripts, now, fetchSeq, prev, calc, engine, http>>

(* what is left of a call whose future was dropped: its locals are gone;  *)
(* the operation, the URL and the fetches made so far are kept for the     *)
(* caller's record                                                         *)
Dropped(tk) ==
  [IdleTask EXCEPT !.pc = "dropped", !.op = tk.op, !.url = tk.url,
                   !.log = tk.log]

(* variant of Drop: dropping a call evicts the entry of its URL *)
DropEvicts(t) ==
  /\ task[t].pc \in FetchPcs
  /\ task' = [task EXCEPT ![t] = Dropped(task[t])]
  /\ cached_scripts' = Removed(cached_scripts, task[t].url)
  /\ UNCHANGED <<now, fetchSeq, prev, calc, engine, http>>

(* the caller drops the future of a call that is suspended on a fetch;     *)
(* nothing of the call runs again                                          *)
Drop(t) ==
  /\ task[t].pc \in FetchPcs
  /\ task' = [task EXCEPT ![t] = Dropped(task[t])]
  /\ UNCHANGED <<cached_scripts, now, fetchSeq, prev, calc, engine, http>>

ConcNext ==
  \/ \E t \in ConcTasks, o \in Ops : \E f \in ConcFormatsOf(o) : ConcCall(t, o, f)
  \/ \E t \in ConcTasks, r \in ConcFetchResults, e \in BOOLEAN :
       ConcAdvFetch(t, r, e)
  \/ \E t \in ConcTasks, r \in ConcFetchResults : ConcGcFetch(t, r)
  \/ \E t \in ConcTasks : ConcReturn(t)
  \/ \E t \in ConcTasks : Drop(t)
  \/ \E t \in ConcTasks : ConcCleanupCache(t)
  \/ \E t \in ConcTasks : ConcGetCacheStats(t)

ConcInit ==
  /\ cached_scripts = [u \in Urls |-> None]
  /\ now = 0
  /\ fetchSeq = 0
  /\ task = [t \in ConcTasks |-> IdleTask]
  /\ prev = IdleTask
  /\ calc = NoCalc
  /\ engine = NewEngine
  /\ http = NoHttp

ConcSpec == ConcInit /\ [][ConcNext]_vars

(* -------------------- shorthands of the concurrency claims ------------- *)
ResolutionOps == {"resolve_format_url", "get_cipher", "get_advanced_cipher"}

BuiltPaths == {"basic_built", "advanced_built"}

(* a finished first-time call that fetched the text script and wrote an    *)
(* entry for it                                                            *)
WroteFirstTime(t, u, script) ==
  /\ task[t].pc = "done"
  /\ task[t].op \in ResolutionOps
  /\ task[t].url = u
  /\ task[t].uncached
  /\ task[t].path \in BuiltPaths
  /\ task[t].script_content = Some(script)
  /\ AllFetchesOk(t)

(* C12: when two overlapping first-time calls for one script URL (each     *)
(* started before the other wrote) have fetched the same text and both     *)
(* have completed, the cache holds an entry for the URL with that text,    *)
(* and what the two wrote agrees on the presence of an advanced cipher,    *)
(* so that the entry is the same whichever wrote last.                     *)
C12_WritersConverge ==
  \A t1, t2 \in ConcTasks, u \in Urls, script \in Scripts :
    /\ t1 # t2
    /\ WroteFirstTime(t1, u, script)
    /\ WroteFirstTime(t2, u, script)
    => /\ Present(cached_scripts, u)
       /\ Get(cached_scripts[u]).script_content = script
       /\ (task[t1].path = "advanced_built") = (task[t2].path = "advanced_built")
       /\ IsSome(Get(cached_scripts[u]).advanced_cipher)
            = (task[t1].path = "advanced_built")

(* C13: a call of resolve_format_url, get_cipher or get_advanced_cipher    *)
(* that is suspended on a fetch has written nothing to the cache and holds *)
(* no cipher; a step of such a call that changes the cache is its last;    *)
(* and dropping it at a fetch changes neither the cache nor another call.  *)
C13_DroppedCallLeavesNoTrace ==
  [][\A t \in ConcTasks :
       /\ task'[t].op \in ResolutionOps /\ task'[t].pc \in FetchPcs
            => /\ task'[t].path = ""
               /\ task'[t].built = None
               /\ task'[t] # task[t] => cached_scripts' = cached_scripts
       /\ task'[t].op \in ResolutionOps /\ task'[t] # task[t]
            /\ cached_scripts' # cached_scripts
            => task'[t].pc = "done"
       /\ task[t].op \in ResolutionOps /\ task[t].pc \in FetchPcs
            /\ task'[t].pc = "dropped"
            => /\ cached_scripts' = cached_scripts
               /\ \A other \in ConcTasks \ {t} : task'[other] = task[other]]_vars

C13_Witness ==
  \E t1, t2 \in ConcTasks :
    /\ task[t1].pc = "dropped"
    /\ task[t1].op = "resolve_format_url"
    /\ task[t1].log = <<TRUE>>
    /\ ~Present(cached_scripts, task[t1].url)
    /\ task[t2].pc = "adv_fetch"
    /\ task[t2].url = task[t1].url

SamplesRunOn(extracted) ==
  /\ decipher_signature(extracted, Str36).ok
  /\ transform_n_parameter(extracted, Str12).ok

(* the extracted ciphers for which they do *)
PassingCiphers == {extracted \in Scripts : SamplesRunOn(extracted)}

SamplesRun(extracted) == extracted \in PassingCiphers

MaxSigLen == 8
MaxIndex == 2
MaxOps == 3

CipherOperations ==
  {OpReverse} \cup {OpSwap(i) : i \in 0..MaxIndex}
              \cup {OpSlice(i) : i \in 0..MaxIndex}

RECURSIVE OperationLists(_)
OperationLists(n) ==
  IF n = 0 THEN {<<>>}
  ELSE LET shorter == OperationLists(n - 1)
       IN shorter \cup {Append(l, o) : l \in shorter, o \in CipherOperations}

(* signatures: the first k characters of the self-test sample *)
Signatures == {SubSeq(Str36, 1, k) : k \in 0..MaxSigLen}

OpsInputs ==
  {[cipher |-> [operations |-> l], signature |-> sig] :
     l \in OperationLists(MaxOps), sig \in Signatures}

(* the cipher a caller of the manager applies: the fallback cipher or an   *)
(* advanced cipher built from a script that passed the self-test           *)
CipherKinds == {"basic", "good", "fragile"}

DecipherUrl(kind, format) ==
  IF kind = "basic"
    THEN BasicDecipherUrl(parse_cipher_from_script(kind), format)
    ELSE AdvDecipherUrl([extracted |-> kind, serial |-> 0], format)

UrlNoQuery == <<>>

UrlTwoN == << <<"n", <<"o">> >>, <<"itag", <<"1", "+", "2">> >>,
              <<"n", <<"p">> >> >>

UrlWithSig == << <<"sig", <<"o", "l", "d">> >>, <<"itag", <<"%2B">> >> >>

UrlFormats ==
  {[url |-> u, signature |-> sig, signature_key |-> k, n_parameter |-> n] :
     u \in {UrlNoQuery, BaseUrl, UrlTwoN, UrlWithSig},
     sig \in {None, Some(<<"a">>), Some(<<"a", "b", "c", "d">>),
              Some(<<"a", "+", "c", "d">>)},
     k \in {None, Some("sig"), Some("n")},
     n \in {None, Some(<<"x", "y">>)}}

UrlInputs == {[cipher |-> k, format |-> f] : k \in CipherKinds, f \in UrlFormats}

IdleManager ==
  /\ cached_scripts = [u \in Urls |-> None]
  /\ now = 0
  /\ fetchSeq = 0
  /\ task = [t \in Tasks |-> IdleTask]
  /\ prev = IdleTask
  /\ engine = NewEngine
  /\ http = NoHttp

OpsInit ==
  /\ IdleManager
  /\ calc \in {[fn |-> "decipher_signature", input |-> i, out |-> None] :
                 i \in OpsInputs}

(* SignatureCipher::decipher_signature applied to the input *)
DecipherSignature ==
  /\ calc.fn = "decipher_signature"
  /\ calc.out = None
  /\ calc' = [calc EXCEPT !.out =
                Some(BasicDecipherSignature(calc.input.cipher,
                                            calc.input.signature))]
  /\ UNCHANGED <<cached_scripts, now, fetchSeq, task, prev, engine, http>>

OpsNext == DecipherSignature

OpsSpec == OpsInit /\ [][OpsNext]_vars

UrlInit ==
  /\ IdleManager
  /\ calc \in {[fn |-> "decipher_url", input |-> i, out |-> None] :
                 i \in UrlInputs}

(* decipher_url of the chosen cipher applied to the format *)
ApplyDecipherUrl ==
  /\ calc.fn = "decipher_url"
  /\ calc.out = None
  /\ calc' = [calc EXCEPT !.out =
                Some(DecipherUrl(calc.input.cipher, calc.input.format))]
  /\ UNCHANGED <<cached_scripts, now, fetchSeq, task, prev, engine, http>>

UrlNext == ApplyDecipherUrl

UrlSpec == UrlInit /\ [][UrlNext]_vars

(* ----------------------- shorthands of the URL claims ------------------ *)
UrlDone == calc.fn = "decipher_url" /\ IsSome(calc.out) /\ Get(calc.out).ok

InFormat == calc.input.format

(* the decoded query of the URL decipher_url returned *)
OutPairs == query_pairs(Get(calc.out).val)

Named(pairs, key) == SelectSeq(pairs, LAMBDA p : p[1] = key)

NotNamed(pairs, key) == SelectSeq(pairs, LAMBDA p : p[1] # key)

(* the signature the cipher of the input computes for the format *)
Deciphered ==
  IF calc.input.cipher = "basic"
    THEN BasicDecipherSignature(parse_cipher_from_script(calc.input.cipher),
                                Get(InFormat.signature))
    ELSE decipher_signature(calc.input.cipher, Get(InFormat.signature)).val

Outside(pairs, keys) == SelectSeq(pairs, LAMBDA p : p[1] \notin keys)

(* the keys the two steps of decipher_url write for the format *)
OwnedKeys ==
  (IF IsSome(InFormat.n_parameter) THEN {"n"} ELSE {})
    \cup (IF IsSome(InFormat.signature) /\ IsSome(InFormat.signature_key)
            THEN {Get(InFormat.signature_key)} ELSE {})

(* the key a signature goes under when the format declares none *)
DefaultSignatureKey == "sig"

(* C15: for a format with a signature and a signature key (and no          *)
(* n-parameter, so that the signature step is the only one), the query of  *)
(* the URL decipher_url returns has exactly one parameter named by the     *)
(* key, and its value is the deciphered signature: a parameter of that     *)
(* name in the base URL is removed.                                        *)
C15_SignatureParameterReplacesOld ==
  /\ UrlDone
  /\ IsSome(InFormat.signature)
  /\ IsSome(InFormat.signature_key)
  /\ InFormat.n_parameter = None
  => Named(OutPairs, Get(InFormat.signature_key))
       = << <<Get(InFormat.signature_key), Deciphered>> >>

(* C16: for a format with an n-parameter, the query of the URL             *)
(* decipher_url returns has exactly one parameter named n, holding the     *)
(* transformed value; every other parameter of the base URL keeps its      *)
(* value and its place among the others, and the only other parameter      *)
(* added is the signature.                                                 *)
C16_NParameterSetOnce ==
  UrlDone /\ IsSome(InFormat.n_parameter) =>
    LET before == NotNamed(query_pairs(InFormat.url), "n")
        after == NotNamed(OutPairs, "n")
        key == InFormat.signature_key
        added == IF IsSome(InFormat.signature) /\ IsSome(key)
                    /\ key # Some("n")
                   THEN << <<Get(key), Deciphered>> >> ELSE <<>>
    IN /\ Named(OutPairs, "n")
            = << <<"n", YtPrefix \o Reverse(Get(InFormat.n_parameter))>> >>
       /\ after = before \o added

C16_Witness ==
  /\ UrlDone
  /\ calc.input.cipher = "good"
  /\ InFormat.url = UrlTwoN
  /\ InFormat.n_parameter = Some(<<"x", "y">>)
  /\ InFormat.signature = Some(<<"a", "+", "c", "d">>)
  /\ InFormat.signature_key = Some("sig")
  /\ Get(calc.out).val
       = << <<"itag", <<"1", "%20", "2">> >>, <<"sig", <<"%2B", "a">> >>,
            <<"n", <<"y", "t", "_", "y", "x">> >> >>

(* C17: for a format with a signature (under a key other than n, which     *)
(* the n step owns), the URL decipher_url returns has the deciphered       *)
(* signature as a parameter, under the declared key or, when the format    *)
(* declares none, under the default key.                                   *)
C17_SignatureNeverLeftOut ==
  /\ UrlDone
  /\ IsSome(InFormat.signature)
  /\ InFormat.signature_key # Some("n")
  => LET key == IF IsSome(InFormat.signature_key)
                  THEN Get(InFormat.signature_key)
                  ELSE DefaultSignatureKey
     IN \E i \in 1..Len(OutPairs) : OutPairs[i] = <<key, Deciphered>>

(* C18: a format with neither a signature nor an n-parameter yields the    *)
(* base URL unchanged; with both, the signature parameter the first step   *)
(* wrote is in the result with the same value, whatever the signature      *)
(* key; and the parameters under keys neither step writes are unchanged.   *)
C18_StepsIndependent ==
  /\ calc.fn = "decipher_url" /\ IsSome(calc.out)
       /\ InFormat.signature = None /\ InFormat.n_parameter = None
       => calc.out = Some(Ok(InFormat.url))
  /\ UrlDone /\ IsSome(InFormat.signature) /\ IsSome(InFormat.signature_key)
       /\ IsSome(InFormat.n_parameter)
       => \E i \in 1..Len(OutPairs) :
            OutPairs[i] = <<Get(InFormat.signature_key), Deciphered>>
  /\ UrlDone
       => Outside(OutPairs, OwnedKeys)
            = Outside(query_pairs(InFormat.url), OwnedKeys)

(* ------------------ shorthands of the fallback claims ------------------ *)
OpsDone == calc.fn = "decipher_signature" /\ IsSome(calc.out)

(* one operation, position by position; an index is in range when it is    *)
(* the index of a character of the sequence                                *)
StepByPosition(seq, o) ==
  LET len == Len(seq)
      i == o.index
  IN CASE o.op = "Reverse" -> [k \in 1..len |-> seq[len + 1 - k]]
       [] o.op = "Swap" ->
            IF i >= len THEN seq
            ELSE [k \in 1..len |-> IF k = 1 THEN seq[i + 1]
                                   ELSE IF k = i + 1 THEN seq[1]
                                   ELSE seq[k]]
       [] o.op = "Slice" ->
            IF i >= len THEN seq
            ELSE [k \in 1..(len - i) |-> seq[k + i]]

(* the operations one after the other, the last of the list last *)
RECURSIVE InListOrder(_, _)
InListOrder(seq, ops) ==
  IF ops = <<>> THEN seq
  ELSE StepByPosition(InListOrder(seq, SubSeq(ops, 1, Len(ops) - 1)),
                      ops[Len(ops)])

(* C19: the fallback cipher applies its operations in list order and       *)
(* always returns a string: Reverse reverses, Swap(i) exchanges positions  *)
(* 0 and i, Slice(i) drops the first i characters, and a Swap or Slice     *)
(* whose index is not the index of a character of the current sequence     *)
(* leaves it unchanged, the operations after it still being applied.       *)
C19_OperationsInOrder ==
  OpsDone =>
    Get(calc.out) = InListOrder(calc.input.signature,
                                calc.input.cipher.operations)

C19_Witness ==
  /\ OpsDone
  /\ calc.input.signature = <<"a", "b">>
  /\ calc.input.cipher.operations = <<OpSlice(2), OpSwap(2), OpReverse>>
  /\ Get(calc.out) = <<"b", "a">>

(* the sequence the manager installs *)
FallbackOperations == <<OpReverse, OpSwap(1), OpSlice(2)>>

(* reverse, exchange the first two characters, drop the first two *)
ReverseSwapDrop(str) ==
  LET len == Len(str)
  IN [k \in 1..(IF len >= 2 THEN len - 2 ELSE 0) |-> str[len - 1 - k]]

InstalledForEveryScript ==
  \A script \in Scripts :
    parse_cipher_from_script(script).operations = FallbackOperations

(* C20: for every signature the installed fallback sequence yields the     *)
(* signature reversed, its first two characters exchanged and dropped,     *)
(* which is what the reference chain of the engine yields.                 *)
C20_FallbackIsReferenceChain ==
  /\ InstalledForEveryScript
  /\ OpsDone /\ calc.input.cipher.operations = FallbackOperations
       => /\ Get(calc.out) = ReverseSwapDrop(calc.input.signature)
          /\ Get(calc.out) = JsChain(calc.input.signature)

(* C20 as amended: for a signature of three characters or more the         *)
(* installed fallback sequence yields the signature reversed without its   *)
(* first two characters, as the reference chain does; a signature of one   *)
(* or two characters is returned unchanged (Swap(1) and Slice(2) are       *)
(* out of range), where the reference chain yields the empty string.       *)
C20_FallbackIsReferenceChainFromThree ==
  /\ InstalledForEveryScript
  /\ OpsDone /\ calc.input.cipher.operations = FallbackOperations
       => LET sig == calc.input.signature
          IN IF Len(sig) >= 3
               THEN /\ Get(calc.out) = ReverseSwapDrop(sig)
                    /\ Get(calc.out) = JsChain(sig)
               ELSE /\ Get(calc.out) = sig
                    /\ JsChain(sig) = <<>>

C20_Witness ==
  /\ OpsDone
  /\ calc.input.cipher.operations = FallbackOperations
  /\ calc.input.signature = <<"a", "b", "c", "d", "e", "f", "g", "h">>
  /\ Get(calc.out) = <<"f", "e", "d", "c", "b", "a">>

(* --------------------- script parser (script_parser.rs) ---------------- *)
(* A script text is the sequence of the pieces of it that a pattern of the *)
(* parser can match, in the order in which they are written.  "n_function" *)
(* is matched by the primary pattern of extract_n_function, "n_function_old"*)
(* by the fallback pattern only.  A match is named by its position.        *)
MaxPieces == 5

PieceKinds == {"timestamp", "global_vars", "sig_actions", "sig_function",
               "n_function", "n_function_old"}

ScriptTexts == UNION {[1..n -> PieceKinds] : n \in 0..MaxPieces}

(* Regex::find / Regex::captures: the leftmost match *)
Find(script, kind) ==
  LET at == {i \in 1..Len(script) : script[i] = kind}
  IN IF at = {} THEN None
     ELSE Some(CHOOSE i \in at : \A j \in at : i <= j)

OkOrElse(found, message) ==
  IF IsSome(found) THEN Ok(Get(found)) ELSE Err(message)

extract_timestamp(script) ==
  OkOrElse(Find(script, "timestamp"), "Timestamp not found in script")

extract_global_vars(script) ==
  OkOrElse(Find(script, "global_vars"), "Global variables not found in script")

extract_sig_actions(script) ==
  OkOrElse(Find(script, "sig_actions"), "Signature actions not found in script")

extract_sig_function(script) ==
  OkOrElse(Find(script, "sig_function"), "Signature function not found in script")

extract_n_function(script) ==
  IF IsSome(Find(script, "n_function"))
    THEN Ok(Get(Find(script, "n_function")))
    ELSE OkOrElse(Find(script, "n_function_old"),
                  "N parameter function not found in script")

(* the matched text without its short-circuit return *)
clean_n_function(n_function) == [text |-> n_function, cleaned |-> TRUE]

(* the ? operator: the first failing step returns its error *)
FirstErr(results) ==
  LET failed == {i \in 1..Len(results) : ~results[i].ok}
  IN IF failed = {} THEN None
     ELSE Some(results[CHOOSE i \in failed : \A j \in failed : i <= j])

(* variant of ExtractCipher: the signature function is looked for before   *)
(* the signature actions                                                   *)
ExtractCipherSigFunctionFirst(script) ==
  LET timestamp == extract_timestamp(script)
      global_vars == extract_global_vars(script)
      sig_actions == extract_sig_actions(script)
      sig_function == extract_sig_function(script)
      n_function == extract_n_function(script)
      failed == FirstErr(<<timestamp, global_vars, sig_function, sig_actions,
                           n_function>>)
  IN IF IsSome(failed) THEN Get(failed)
     ELSE Ok([timestamp |-> timestamp.val, global_vars |-> global_vars.val,
              sig_actions |-> sig_actions.val,
              sig_function |-> sig_function.val,
              n_function |-> clean_n_function(n_function.val),
              raw_script |-> script])

(* ScriptParser::extract_cipher_from_script on a script text *)
ExtractCipher(script) ==
  LET timestamp == extract_timestamp(script)
      global_vars == extract_global_vars(script)
      sig_actions == extract_sig_actions(script)
      sig_function == extract_sig_function(script)
      n_function == extract_n_function(script)
      failed == FirstErr(<<timestamp, global_vars, sig_actions, sig_function,
                           n_function>>)
  IN IF IsSome(failed) THEN Get(failed)
     ELSE Ok([timestamp |-> timestamp.val, global_vars |-> global_vars.val,
              sig_actions |-> sig_actions.val,
              sig_function |-> sig_function.val,
              n_function |-> clean_n_function(n_function.val),
              raw_script |-> script])

ParseInit ==
  /\ IdleManager
  /\ calc \in {[fn |-> "extract_cipher_from_script", input |-> s, out |-> None] :
                 s \in ScriptTexts}

ExtractCipherFromScript ==
  /\ calc.fn = "extract_cipher_from_script"
  /\ calc.out = None
  /\ calc' = [calc EXCEPT !.out = Some(ExtractCipher(calc.input))]
  /\ UNCHANGED <<cached_scripts, now, fetchSeq, task, prev, engine, http>>

ParseNext == ExtractCipherFromScript

ParseSpec == ParseInit /\ [][ParseNext]_vars

(* ---------------------- shorthands of the parser claim ----------------- *)
ParseDone == calc.fn = "extract_cipher_from_script" /\ IsSome(calc.out)

Has(script, kinds) == \E i \in 1..Len(script) : script[i] \in kinds

(* the five fragments in the order of the claim, each with the kinds of    *)
(* piece that count as it and the message that names it                    *)
Fragments ==
  << [kinds |-> {"timestamp"}, message |-> "Timestamp not found in script"],
     [kinds |-> {"global_vars"},
      message |-> "Global variables not found in script"],
     [kinds |-> {"sig_actions"},
      message |-> "Signature actions not found in script"],
     [kinds |-> {"sig_function"},
      message |-> "Signature function not found in script"],
     [kinds |-> {"n_function", "n_function_old"},
      message |-> "N parameter function not found in script"] >>

Missing(script) == {k \in 1..5 : ~Has(script, Fragments[k].kinds)}

(* C21: extract_cipher_from_script succeeds exactly when all five          *)
(* fragments are in the script, and then returns all six fields, each a    *)
(* piece of the right kind and the raw script; otherwise it fails with the *)
(* message that names the first missing fragment in the order timestamp,   *)
(* global variables, signature actions, signature function, n function,    *)
(* and returns no field at all.                                            *)
C21_AllFragmentsOrNamedError ==
  ParseDone =>
    LET script == calc.input
        out == Get(calc.out)
        missing == Missing(script)
    IN /\ out.ok <=> missing = {}
       /\ out.ok =>
            /\ out.err = ""
            /\ DOMAIN out.val = {"timestamp", "global_vars", "sig_actions",
                                 "sig_function", "n_function", "raw_script"}
            /\ script[out.val.timestamp] = "timestamp"
            /\ script[out.val.global_vars] = "global_vars"
            /\ script[out.val.sig_actions] = "sig_actions"
            /\ script[out.val.sig_function] = "sig_function"
            /\ script[out.val.n_function.text] \in Fragments[5].kinds
            /\ out.val.raw_script = script
       /\ ~out.ok =>
            /\ out.val = <<>>
            /\ \E k \in missing :
                 /\ \A j \in missing : k <= j
                 /\ out.err = Fragments[k].message

(* a script without signature actions and without n function fails with    *)
(* the error of the signature actions *)
C21_Witness ==
  /\ ParseDone
  /\ Missing(calc.input) = {3, 5}
  /\ ~Get(calc.out).ok
  /\ Get(calc.out).err = "Signature actions not found in script"

(* a script with all five fragments, the n function matched by the         *)
(* fallback pattern, is extracted *)
C21_WitnessExtracted ==
  /\ ParseDone
  /\ calc.input = <<"sig_function", "n_function_old", "timestamp",
                    "sig_actions", "global_vars">>
  /\ Get(calc.out).ok

(* ---------------------- JavaScript engine (js_engine.rs) --------------- *)
(* A script is a sequence of statements:                                   *)
(*   syntax_error    text that does not parse                              *)
(*   throw           throw at top level                                    *)
(*   set_leak        leak = "x"                                            *)
(*   var_f           var f = 1                                             *)
(*   def_reverse     function f(a) { return reversed a }                   *)
(*   def_throw       function f(a) { throw }                               *)
(*   def_number      function f(a) { return a.length }                     *)
(*   def_reads_leak  function f(a) { return leak if defined, else a }      *)
(*   def_sets_leak   function f(a) { leak = a; return a }                  *)
MaxStatements == 2

Definitions == {"def_reverse", "def_throw", "def_number", "def_reads_leak",
                "def_sets_leak"}

Statements == {"syntax_error", "throw", "set_leak", "var_f"} \cup Definitions

EngineScripts == UNION {[1..n -> Statements] : n \in 0..MaxStatements}

FunctionNames == {"f", "g"}

Arguments == {<<"a", "b">>, <<"c">>}

EngineMethods == {"execute_cipher_function", "execute_n_transform_function"}

(* elapsed milliseconds of a call *)
ElapsedTimes == {0, 100, 101}

Positions(script, kinds) == {i \in 1..Len(script) : script[i] \in kinds}

Last(at) == CHOOSE i \in at : \A j \in at : j <= i

First(at) == CHOOSE i \in at : \A j \in at : i <= j

(* variant of Eval: a prelude that throws still counts as evaluated *)
EvalIgnoresThrow(globals, script) ==
  IF Positions(script, {"syntax_error"}) # {}
    THEN [ok |-> FALSE, globals |-> globals]
    ELSE LET defs == Positions(script, Definitions)
             hoisted == IF defs = {} THEN globals
                        ELSE [globals EXCEPT !.f = JsFunction(script[Last(defs)])]
             throws == Positions(script, {"throw"})
             stop == IF throws = {} THEN Len(script) + 1 ELSE First(throws)
             run == SubSeq(script, 1, stop - 1)
             leak == IF Positions(run, {"set_leak"}) # {}
                       THEN JsString(<<"x">>) ELSE hoisted.leak
             f == IF Positions(run, {"var_f"}) # {} THEN JsNumber ELSE hoisted.f
         IN [ok |-> TRUE, globals |-> [leak |-> leak, f |-> f]]

(* ctx.eval(script): function declarations are bound first, then the       *)
(* statements run in order up to the first throw                           *)
Eval(globals, script) ==
  IF Positions(script, {"syntax_error"}) # {}
    THEN [ok |-> FALSE, globals |-> globals]
    ELSE LET defs == Positions(script, Definitions)
             hoisted == IF defs = {} THEN globals
                        ELSE [globals EXCEPT !.f = JsFunction(script[Last(defs)])]
             throws == Positions(script, {"throw"})
             stop == IF throws = {} THEN Len(script) + 1 ELSE First(throws)
             run == SubSeq(script, 1, stop - 1)
             leak == IF Positions(run, {"set_leak"}) # {}
                       THEN JsString(<<"x">>) ELSE hoisted.leak
             f == IF Positions(run, {"var_f"}) # {} THEN JsNumber ELSE hoisted.f
         IN [ok |-> throws = {}, globals |-> [leak |-> leak, f |-> f]]

(* ctx.globals().get(name) *)
GlobalsGet(globals, name) ==
  IF name \in DOMAIN globals THEN globals[name] ELSE Undefined

(* function.call((argument,)) in a context with these globals *)
CallFunction(function, argument, globals) ==
  CASE function.body = "def_reverse" ->
         [ok |-> TRUE, value |-> JsString(Reverse(argument)), globals |-> globals]
    [] function.body = "def_throw" ->
         [ok |-> FALSE, value |-> Undefined, globals |-> globals]
    [] function.body = "def_number" ->
         [ok |-> TRUE, value |-> JsNumber, globals |-> globals]
    [] function.body = "def_reads_leak" ->
         [ok |-> TRUE,
          value |-> IF globals.leak = Undefined THEN JsString(argument)
                    ELSE globals.leak,
          globals |-> globals]
    [] function.body = "def_sets_leak" ->
         [ok |-> TRUE, value |-> JsString(argument),
          globals |-> [globals EXCEPT !.leak = JsString(argument)]]

(* variant of ContextFull: the new context starts from what the context    *)
(* dropped last has left                                                   *)
ContextReused(e) == e.garbage

(* Context::full(&self.runtime): a new global object with the intrinsics *)
ContextFull(e) == EmptyGlobals

(* the call returns r; its context is dropped *)
EngineReturn(e, r) ==
  [e EXCEPT !.pc = "returned", !.out = Some(r), !.garbage = e.globals,
            !.globals = EmptyGlobals, !.function = Undefined,
            !.result = Undefined]

EngineInit ==
  /\ cached_scripts = [u \in Urls |-> None]
  /\ now = 0
  /\ fetchSeq = 0
  /\ task = [t \in Tasks |-> IdleTask]
  /\ prev = IdleTask
  /\ calc = NoCalc
  /\ engine = NewEngine
  /\ http = NoHttp

(* entry of execute_cipher_function / execute_n_transform_function up to   *)
(* the creation of the context                                             *)
Execute(method, script, function_name, argument, context_ok) ==
  /\ engine.pc = "idle"
  /\ LET e == [engine EXCEPT !.call = [method |-> method, script |-> script,
                                       function_name |-> function_name,
                                       argument |-> argument],
                             !.out = None, !.elapsed = 0, !.warned = FALSE]
     IN engine' = IF context_ok
                    THEN [e EXCEPT !.pc = "context", !.context = TRUE,
                                   !.globals = ContextFull(e)]
                    ELSE [e EXCEPT !.pc = "returned",
                                   !.out = Some(Err("RuntimeError"))]
  /\ UNCHANGED <<cached_scripts, now, fetchSeq, task, prev, calc, http>>

(* ctx.eval::<(), _>(script) *)
Evaluate ==
  /\ engine.pc = "context"
  /\ LET r == Eval(engine.globals, engine.call.script)
         e == [engine EXCEPT !.globals = r.globals]
     IN engine' = IF r.ok THEN [e EXCEPT !.pc = "evaluated"]
                  ELSE EngineReturn(e, Err("CompilationError"))
  /\ UNCHANGED <<cached_scripts, now, fetchSeq, task, prev, calc, http>>

(* let function: Function = ctx.globals().get(function_name) *)
Lookup ==
  /\ engine.pc = "evaluated"
  /\ LET v == GlobalsGet(engine.globals, engine.call.function_name)
     IN engine' = IF v.type = "function"
                    THEN [engine EXCEPT !.pc = "found", !.function = v]
                    ELSE EngineReturn(engine, Err("FunctionNotFound"))
  /\ UNCHANGED <<cached_scripts, now, fetchSeq, task, prev, calc, http>>

(* function.call((signature,)) *)
CallStep ==
  /\ engine.pc = "found"
  /\ LET r == CallFunction(engine.function, engine.call.argument,
                           engine.globals)
         e == [engine EXCEPT !.globals = r.globals]
     IN engine' = IF r.ok THEN [e EXCEPT !.pc = "called", !.result = r.value]
                  ELSE EngineReturn(e, Err("RuntimeError"))
  /\ UNCHANGED <<cached_scripts, now, fetchSeq, task, prev, calc, http>>

(* result.as_string(), the check of the elapsed time, Ok(..) *)
CheckReturn(elapsed) ==
  /\ engine.pc = "called"
  /\ engine' = IF engine.result.type = "string"
                 THEN EngineReturn([engine EXCEPT !.elapsed = elapsed,
                                                  !.warned = elapsed > 100],
                                   Ok(engine.result.chars))
                 ELSE EngineReturn(engine, Err("InvalidReturnType"))
  /\ UNCHANGED <<cached_scripts, now, fetchSeq, task, prev, calc, http>>

(* the caller has taken the result; the engine is ready for the next call *)
TakeResult ==
  /\ engine.pc = "returned"
  /\ engine' = [NewEngine EXCEPT !.garbage = engine.garbage]
  /\ UNCHANGED <<cached_scripts, now, fetchSeq, task, prev, calc, http>>

EngineNext ==
  \/ /\ engine.pc = "idle"
     /\ \E m \in EngineMethods, s \in EngineScripts, f \in FunctionNames,
           a \in Arguments, ok \in BOOLEAN : Execute(m, s, f, a, ok)
  \/ Evaluate
  \/ Lookup
  \/ CallStep
  \/ \E el \in ElapsedTimes : CheckReturn(el)
  \/ TakeResult

EngineSpec == EngineInit /\ [][EngineNext]_vars

(* ---------------------- shorthands of the engine claims ---------------- *)
Returned == engine.pc = "returned"

(* the call on an engine that has run nothing before: the steps of the     *)
(* call one after the other, from an empty global object                   *)
RunAlone(call) ==
  LET ev == Eval(EmptyGlobals, call.script)
      fn == GlobalsGet(ev.globals, call.function_name)
      r == CallFunction(fn, call.argument, ev.globals)
  IN IF ~ev.ok THEN Err("CompilationError")
     ELSE IF fn.type # "function" THEN Err("FunctionNotFound")
     ELSE IF ~r.ok THEN Err("RuntimeError")
     ELSE IF r.value.type # "string" THEN Err("InvalidReturnType")
     ELSE Ok(r.value.chars)

(* no context could be created for the call: nothing of it has run *)
NoContext == Returned /\ ~engine.context

(* C22: the context of a call starts without any global of an earlier      *)
(* call, and the result of a call that got a context is the result of the  *)
(* same script, function name and argument on an engine that has run       *)
(* nothing before, whatever the earlier calls on this engine left behind.  *)
C22_CallsAreIsolated ==
  /\ engine.pc = "context" => engine.globals = EmptyGlobals
  /\ Returned /\ ~NoContext => Get(engine.out) = RunAlone(engine.call)

(* the call before defined f and set leak; this call, whose script defines *)
(* neither, does not find f *)
C22_Witness ==
  /\ engine.pc = "evaluated"
  /\ engine.garbage.f.type = "function"
  /\ engine.garbage.leak # Undefined
  /\ Positions(engine.call.script, Definitions \cup {"set_leak"}) = {}
  /\ engine.call.function_name = "f"
  /\ engine.globals = EmptyGlobals

(* what the script binds to the name, read off the text of the script *)
Evaluates(script) == Positions(script, {"syntax_error", "throw"}) = {}

DefinesFunction(script, name) ==
  /\ name = "f"
  /\ Positions(script, Definitions) # {}
  /\ Positions(script, {"var_f"}) = {}

Body(script) == script[Last(Positions(script, Definitions))]

Returns(script, argument) ==
  CASE Body(script) = "def_reverse" -> Reverse(argument)
    [] Body(script) = "def_sets_leak" -> argument
    [] Body(script) = "def_reads_leak" ->
         IF Positions(script, {"set_leak"}) # {} THEN <<"x">> ELSE argument

(* C23: a call that got its context reports the first failing step of      *)
(* evaluate, look up, call, check the return type: CompilationError when   *)
(* the script does not evaluate, else FunctionNotFound when it binds no    *)
(* function to the name, else RuntimeError when the function throws, else  *)
(* InvalidReturnType when it returns no string, else the string; the time  *)
(* the call took only sets the warning.                                    *)
C23_FirstFailingStepReported ==
  Returned /\ ~NoContext =>
    LET script == engine.call.script
        name == engine.call.function_name
        out == Get(engine.out)
    IN /\ out = IF ~Evaluates(script) THEN Err("CompilationError")
                ELSE IF ~DefinesFunction(script, name)
                  THEN Err("FunctionNotFound")
                ELSE IF Body(script) = "def_throw" THEN Err("RuntimeError")
                ELSE IF Body(script) = "def_number"
                  THEN Err("InvalidReturnType")
                ELSE Ok(Returns(script, engine.call.argument))
       /\ engine.warned <=> out.ok /\ engine.elapsed > 100
       /\ out.err \in {"", "CompilationError", "FunctionNotFound",
                       "RuntimeError", "InvalidReturnType"}

(* a call that took 101 ms returns its string; a script that neither       *)
(* evaluates nor defines the function reports the evaluation *)
C23_Witness ==
  /\ Returned
  /\ engine.elapsed = 101 /\ engine.warned
  /\ engine.call.script = <<"set_leak", "def_reads_leak">>
  /\ engine.out = Some(Ok(<<"x">>))

C23_WitnessFirstStep ==
  /\ Returned
  /\ engine.call.script = <<"def_throw", "throw">>
  /\ engine.call.function_name = "g"
  /\ engine.out = Some(Err("CompilationError"))

(* ------------- overlapping calls with the response in flight ----------- *)
(* fetch_player_script awaits twice: send() returns when the server has    *)
(* answered, text() when the body has arrived.  http holds, for each task, *)
(* the response the server has sent and the task has not read yet, stamped *)
(* with the number of responses sent so far.  began and refreshed are      *)
(* records for the claims: the number of responses sent when the task's    *)
(* refresh_script began, and the largest such number among the             *)
(* refresh_script calls that have returned Ok.                             *)
FlightOps == {"resolve_format_url", "get_advanced_cipher", "refresh_script"}

NoFlight == [component |-> "fetch_player_script",
             response |-> [t \in ConcTasks |-> None],
             began |-> [t \in ConcTasks |-> 0],
             refreshed |-> None]

FlightInit ==
  /\ cached_scripts = [u \in Urls |-> None]
  /\ now = 0
  /\ fetchSeq = 0
  /\ task = [t \in ConcTasks |-> IdleTask]
  /\ prev = IdleTask
  /\ calc = NoCalc
  /\ engine = NewEngine
  /\ http = NoFlight

(* a caller starts an operation; it runs up to its first await *)
FlightCall(t, o, f) ==
  /\ task[t].pc = "idle"
  /\ LET cache == IF o = "refresh_script"
                    THEN Removed(cached_scripts, ConcUrl)
                    ELSE cached_scripts
         tk == [IdleTask EXCEPT !.op = o, !.url = ConcUrl, !.fmt = f,
                                !.removed = o = "refresh_script"
                                            /\ Present(cached_scripts, ConcUrl),
                                !.uncached = ~Present(cache, ConcUrl)]
     IN /\ cached_scripts' = cache
        /\ task' = [task EXCEPT ![t] = AdvEnter(tk, cache, now)]
  /\ http' = [http EXCEPT !.began[t] = fetchSeq]
  /\ UNCHANGED <<now, fetchSeq, prev, calc, engine>>

(* self.http_client.get(url).send().await returns: the server has sent its *)
(* response *)
SendCompletes(t, r) ==
  /\ task[t].pc = "adv_fetch"
  /\ http.response[t] = None
  /\ fetchSeq < MaxFetches
  /\ fetchSeq' = fetchSeq + 1
  /\ http' = [http EXCEPT !.response[t] =
                Some([result |-> r, stamp |-> fetchSeq + 1])]
  /\ UNCHANGED <<cached_scripts, now, task, prev, calc, engine>>

(* response.text().await returns; get_advanced_cipher runs on to its next  *)
(* await or to its end                                                     *)
TextCompletes(t, engine_ok) ==
  /\ task[t].pc = "adv_fetch"
  /\ IsSome(http.response[t])
  /\ LET fetched == Get(http.response[t]).result
         built == AdvBuild(fetched, engine_ok, Get(http.response[t]).stamp)
         tk == [task[t] EXCEPT !.log = Append(@, fetched.ok),
                               !.script_content =
                                  IF fetched.ok THEN Some(fetched.val) ELSE @,
                               !.path = IF built.ok THEN "advanced_built" ELSE @,
                               !.built = IF built.ok THEN Some(built.val) ELSE @]
         cache == IF built.ok
                    THEN AdvStore(cached_scripts, tk.url, fetched.val,
                                  built.val, now)
                    ELSE cached_scripts
         after == AdvReturn(tk, built, cache, now)
     IN /\ cached_scripts' = cache
        /\ task' = [task EXCEPT ![t] = after]
        /\ http' = [http EXCEPT
                      !.response[t] = None,
                      !.refreshed =
                         IF after.op = "refresh_script" /\ after.res.ok
                              /\ (@ = None \/ Get(@) < http.began[t])
                           THEN Some(http.began[t]) ELSE @]
  /\ UNCHANGED <<now, fetchSeq, prev, calc, engine>>

FlightNext ==
  \/ \E t \in ConcTasks, o \in FlightOps :
       \E f \in ConcFormatsOf(o) : FlightCall(t, o, f)
  \/ \E t \in ConcTasks, r \in ConcFetchResults : SendCompletes(t, r)
  \/ \E t \in ConcTasks, e \in BOOLEAN : TextCompletes(t, e)
  \/ \E t \in ConcTasks, r \in ConcFetchResults : ConcGcFetch(t, r)
  \/ \E t \in ConcTasks : ConcReturn(t)

FlightSpec == FlightInit /\ [][FlightNext]_vars

(* C24: once a refresh_script(url) call has returned Ok, an advanced       *)
(* cipher in the entry of url was built from a response that the server    *)
(* sent after that call began.                                             *)
C24_NoPreRefreshResultPutBack ==
  IsSome(http.refreshed) /\ Present(cached_scripts, ConcUrl)
    /\ IsSome(Get(cached_scripts[ConcUrl]).advanced_cipher)
  => Get(Get(cached_scripts[ConcUrl]).advanced_cipher).serial
       > Get(http.refreshed)

(* ------------------- shorthands of the cache entry claims -------------- *)
(* the raw script an extracted cipher was built from *)
RawScript(extracted) == extracted

(* C25: every entry that holds an extracted cipher holds, as its           *)
(* script_content, the script that extracted cipher was built from, and    *)
(* its advanced cipher is the one built from that extracted cipher.        *)
C25_EntryFieldsFromOneFetch ==
  \A u \in Urls :
    Present(cached_scripts, u) /\ IsSome(Get(cached_scripts[u]).extracted_cipher)
    => LET entry == Get(cached_scripts[u])
       IN /\ entry.script_content = RawScript(Get(entry.extracted_cipher))
          /\ IsSome(entry.advanced_cipher)
          /\ Get(entry.advanced_cipher).extracted = Get(entry.extracted_cipher)

(* the fetch of a refresh_script call completes *)
RefreshResumes(t) ==
  /\ task[t].pc = "adv_fetch" /\ task[t].op = "refresh_script"
  /\ task'[t] # task[t]


(* C26: a refresh_script(url) call evicts the entry of url when it starts  *)
(* and touches no other key; when its fetch, extraction, engine or         *)
(* self-test fails it returns that error after its one fetch, without a    *)
(* second attempt, and leaves the cache as it is: without an entry for     *)
(* url, whatever was cached for url before the call.                       *)
C26_FailedRefreshLeavesNoEntry ==
  [][\A t \in Tasks :
       /\ task[t].pc = "idle" /\ task'[t].op = "refresh_script"
            => cached_scripts' = [cached_scripts EXCEPT ![task'[t].url] = None]
       /\ task[t].op = "refresh_script" /\ task'[t].op = "refresh_script"
            => ~Present(cached_scripts, task[t].url) \/ task[t].pc = "done"
       /\ RefreshResumes(t)
            => /\ task'[t].pc = "done"
               /\ Len(task'[t].log) = 1
               /\ task'[t].res.ok <=> IsSome(task'[t].built)
       /\ RefreshResumes(t) /\ ~task'[t].res.ok
            => /\ task'[t].res.err
                    \in {"network", "extraction", "engine", "selftest"}
               /\ task'[t].res.val = <<>>
               /\ task'[t].log = <<task'[t].res.err # "network">>
               /\ fetchSeq' = fetchSeq + 1
               /\ cached_scripts' = cached_scripts
               /\ ~Present(cached_scripts', task[t].url)]_vars

(* the refresh of a URL whose fresh entry held the advanced cipher that    *)
(* the call before had built fails on its fetch *)
C26_Witness ==
  \E t \in Tasks :
    /\ Done(t, "refresh_script")
    /\ task[t].res = Err("network")
    /\ task[t].removed
    /\ prev.op = "resolve_format_url" /\ prev.url = task[t].url
    /\ IsSome(prev.built)
    /\ now = 0
    /\ ~Present(cached_scripts, task[t].url)

(* ------------------ execute_with_retry (http/filter.rs) ---------------- *)
MAX_RETRIES == 3

Methods == {"GET", "POST", "HEAD"}

(* a body that is a stream cannot be cloned *)
Bodies == {"none", "bytes", "stream"}

Requests == [method : Methods, body : Bodies]

SendErrors == {"connect", "reset", "timeout"}

Statuses == {200, 429, 503}

(* the outcome of self.client.execute(req).await *)
SendResults == {Err(e) : e \in SendErrors} \cup {Ok(s) : s \in Statuses}

(* Request::try_clone *)
try_clone(request) == IF request.body = "stream" THEN None ELSE Some(request)

(* the locals of execute_with_retry; request is the request the caller    *)
(* passed, sends counts the calls of client.execute, waits lists the       *)
(* sleeps in milliseconds                                                  *)
NoRetry == [component |-> "execute_with_retry", pc |-> "idle", attempt |-> 0,
            request |-> None, current_request |-> None, req |-> None,
            last_error |-> None,
            sends |-> 0, waits |-> <<>>, out |-> None]

RetryInit ==
  /\ cached_scripts = [u \in Urls |-> None]
  /\ now = 0
  /\ fetchSeq = 0
  /\ task = [t \in Tasks |-> IdleTask]
  /\ prev = IdleTask
  /\ calc = NoCalc
  /\ engine = NewEngine
  /\ http = NoRetry

ExecuteWithRetry(request) ==
  /\ http.pc = "idle"
  /\ http' = [NoRetry EXCEPT !.pc = "loop", !.request = Some(request),
                             !.current_request = Some(request)]
  /\ UNCHANGED <<cached_scripts, now, fetchSeq, task, prev, calc, engine>>

(* the head of the for loop: the request of this attempt, or the end of    *)
(* the loop                                                                *)
NextAttempt ==
  /\ http.pc = "loop"
  /\ http' =
       IF http.attempt >= MAX_RETRIES THEN [http EXCEPT !.pc = "after_loop"]
       ELSE IF http.attempt = 0
         THEN [http EXCEPT !.pc = "execute", !.req = http.current_request,
                           !.current_request = None]
       ELSE LET cloned == IF IsSome(http.current_request)
                            THEN try_clone(Get(http.current_request))
                            ELSE None
            IN IF IsSome(cloned)
                 THEN [http EXCEPT !.pc = "execute", !.req = cloned]
                 ELSE [http EXCEPT !.pc = "after_loop"]
  /\ UNCHANGED <<cached_scripts, now, fetchSeq, task, prev, calc, engine>>

(* self.client.execute(req).await *)
ClientExecute(result) ==
  /\ http.pc = "execute"
  /\ LET sent == [http EXCEPT !.sends = @ + 1, !.req = None]
     IN http' =
          IF result.ok
            THEN [sent EXCEPT !.pc = "returned", !.out = Some(result)]
            ELSE IF http.attempt < MAX_RETRIES - 1
              THEN [sent EXCEPT !.pc = "sleep",
                                !.last_error = Some(result.err)]
              ELSE [sent EXCEPT !.pc = "loop", !.attempt = @ + 1,
                                !.last_error = Some(result.err)]
  /\ UNCHANGED <<cached_scripts, now, fetchSeq, task, prev, calc, engine>>

(* tokio::time::sleep(wait_time).await *)
Sleep ==
  /\ http.pc = "sleep"
  /\ http' = [http EXCEPT !.pc = "loop", !.attempt = @ + 1,
                          !.waits = Append(@, 100 * 2 ^ http.attempt)]
  /\ UNCHANGED <<cached_scripts, now, fetchSeq, task, prev, calc, engine>>

(* after the loop: the error of the last failed send is returned *)
ReturnFailed ==
  /\ http.pc = "after_loop"
  /\ http' = [http EXCEPT
                !.pc = "returned",
                !.out = Some([ok |-> FALSE,
                              err |-> "Request failed after 3 attempts",
                              val |-> Get(http.last_error)])]
  /\ UNCHANGED <<cached_scripts, now, fetchSeq, task, prev, calc, engine>>

RetryTaken ==
  /\ http.pc = "returned"
  /\ http' = NoRetry
  /\ UNCHANGED <<cached_scripts, now, fetchSeq, task, prev, calc, engine>>

RetryNext ==
  \/ /\ http.pc = "idle"
     /\ \E r \in Requests : ExecuteWithRetry(r)
  \/ NextAttempt
  \/ \E r \in SendResults : ClientExecute(r)
  \/ Sleep
  \/ ReturnFailed
  \/ RetryTaken

RetrySpec == RetryInit /\ [][RetryNext]_vars

(* C27: a failed send is followed by another send as long as fewer than    *)
(* three have been made, after a wait of 100 ms and then of 200 ms; the    *)
(* call returns the first response it gets, and returns the error          *)
(* "Request failed after 3 attempts" only when three sends have failed.    *)
C27_ThreeSendAttempts ==
  /\ http.pc = "returned" /\ Get(http.out).ok
       => /\ http.sends \in 1..3
          /\ http.waits = SubSeq(<<100, 200>>, 1, http.sends - 1)
  /\ http.pc = "returned" /\ ~Get(http.out).ok
       => /\ Get(http.out).err = "Request failed after 3 attempts"
          /\ http.sends = 3
          /\ http.waits = <<100, 200>>
  /\ http.pc = "after_loop" => http.sends = 3

(* ---------------- rate limit backoff (http/filter.rs) ------------------ *)
Max429s == 70

(* 1u64 << n for n < 64, as far as min(.., 60) can tell: every power      *)
(* above 60 is represented by 64                                           *)
Shl1(n) == IF n >= 6 THEN 64 ELSE 2 ^ n

Min(a, b) == IF a <= b THEN a ELSE b

(* RateLimitState::default; overflow_checks tells how the program was      *)
(* built (a shift by 64 or more panics with the checks and uses the        *)
(* amount modulo 64 without them); status and out are the last response    *)
(* and what apply_response_filter returned for it                          *)
NoRateLimit(overflow_checks) ==
  [component |-> "rate_limit_state", overflow_checks |-> overflow_checks,
   last_429_time |-> None, backoff_duration |-> 1, consecutive_429s |-> 0,
   status |-> 0, out |-> ""]

RateInit ==
  /\ cached_scripts = [u \in Urls |-> None]
  /\ now = 0
  /\ fetchSeq = 0
  /\ task = [t \in Tasks |-> IdleTask]
  /\ prev = IdleTask
  /\ calc = NoCalc
  /\ engine = NewEngine
  /\ http \in {NoRateLimit(c) : c \in BOOLEAN}

(* handle_rate_limit on the state s *)
handle_rate_limit(s) ==
  LET count == s.consecutive_429s + 1
      marked == [s EXCEPT !.last_429_time = Some(now),
                          !.consecutive_429s = count]
      shift == count - 1
  IN IF shift >= 64 /\ s.overflow_checks
       THEN [marked EXCEPT !.out = "panic"]
       ELSE [marked EXCEPT !.backoff_duration = Min(Shl1(shift % 64), 60),
                           !.out = "RateLimited"]

(* apply_response_filter for a response with this status (the cookie      *)
(* store it clears for a player request is never filled and is left out)   *)
ApplyResponseFilter(status) ==
  /\ http.out # "panic"
  /\ http.consecutive_429s < Max429s
  /\ LET s == [http EXCEPT !.status = status]
     IN http' =
          IF status = 429 THEN handle_rate_limit(s)
          ELSE LET reset == IF status = 200
                              THEN [s EXCEPT !.consecutive_429s = 0,
                                             !.backoff_duration = 1]
                              ELSE s
               IN [reset EXCEPT !.out = "Ok"]
  /\ UNCHANGED <<cached_scripts, now, fetchSeq, task, prev, calc, engine>>

RateNext == \E s \in Statuses : ApplyResponseFilter(s)

RateSpec == RateInit /\ [][RateNext]_vars

(* 2^n as far as a comparison with 60 can tell *)
Pow2(n) == IF n >= 6 THEN 64 ELSE 2 ^ n

(* C28: after k >= 1 responses 429 in a row the backoff is                 *)
(* min(2^(k-1), 60) seconds and no response has made the filter panic;     *)
(* after a successful response the count is 0 and the backoff 1 second.    *)
C28_BackoffDoublesUpTo60 ==
  /\ http.out # "panic"
  /\ http.consecutive_429s >= 1
       => http.backoff_duration = Min(Pow2(http.consecutive_429s - 1), 60)
  /\ http.consecutive_429s = 0 => http.backoff_duration = 1
  /\ http.status = 200 => http.consecutive_429s = 0

(* ------------------- visitor id tracker (http/oauth.rs) ---------------- *)
NumCallers == 2
MaxVisitorFetches == 3
MaxSeconds == 2
MaxIntervals == 1

VISITOR_ID_REFRESH_INTERVAL == 600

Callers == 1..NumCallers

(* the system time, in seconds since UNIX_EPOCH, when the tracker is made *)
TrackerStart == 1000

DurationMax == 1000000

(* later.duration_since(earlier).unwrap_or(Duration::MAX) *)
DurationSinceOrMax(later, earlier) ==
  IF later >= earlier THEN later - earlier ELSE DurationMax

IdleCaller == [pc |-> "idle", now |-> 0, out |-> None]

(* YoutubeAccessTokenTracker::new; token_lock is the caller that holds the *)
(* mutex, or 0; fetches lists, for every fetch issued, the system time at  *)
(* which it was issued                                                     *)
NewTracker ==
  [component |-> "visitor_id", visitor_id |-> None,
   last_visitor_id_update |-> 0, token_lock |-> 0,
   caller |-> [c \in Callers |-> IdleCaller], fetches |-> <<>>]

TrackerInit ==
  /\ cached_scripts = [u \in Urls |-> None]
  /\ now = TrackerStart
  /\ fetchSeq = 0
  /\ task = [t \in Tasks |-> IdleTask]
  /\ prev = IdleTask
  /\ calc = NoCalc
  /\ engine = NewEngine
  /\ http = NewTracker

(* get_visitor_id up to token_lock.lock(): the time is read and the first  *)
(* check made                                                              *)
GetVisitorId(c) ==
  /\ http.caller[c].pc = "idle"
  /\ LET should_update ==
           \/ http.visitor_id = None
           \/ DurationSinceOrMax(now, http.last_visitor_id_update)
                >= VISITOR_ID_REFRESH_INTERVAL
     IN http' = [http EXCEPT !.caller[c] =
                   [pc |-> IF should_update THEN "lock" ELSE "read",
                    now |-> now, out |-> None]]
  /\ UNCHANGED <<cached_scripts, now, fetchSeq, task, prev, calc, engine>>

(* the caller gets the token lock: the second check, and either the return *)
(* of the stored id or the new timestamp and the start of the fetch        *)
Acquire(c) ==
  /\ http.caller[c].pc = "lock"
  /\ http.token_lock = 0
  /\ LET mine == http.caller[c].now
         recent == DurationSinceOrMax(mine, http.last_visitor_id_update)
                     < VISITOR_ID_REFRESH_INTERVAL
     IN IF recent
          THEN http' = [http EXCEPT !.caller[c].pc = "returned",
                                    !.caller[c].out = Some(http.visitor_id)]
          ELSE /\ Len(http.fetches) < MaxVisitorFetches
               /\ http' = [http EXCEPT !.token_lock = c,
                                       !.last_visitor_id_update = mine,
                                       !.fetches = Append(@, now),
                                       !.caller[c].pc = "fetching"]
  /\ UNCHANGED <<cached_scripts, now, fetchSeq, task, prev, calc, engine>>

(* fetch_visitor_id returns; the lock is released and the stored id read *)
VisitorFetched(c, ok) ==
  /\ http.caller[c].pc = "fetching"
  /\ LET id == IF ok THEN Some(Len(http.fetches)) ELSE http.visitor_id
     IN http' = [http EXCEPT !.visitor_id = id, !.token_lock = 0,
                             !.caller[c].pc = "returned",
                             !.caller[c].out = Some(id)]
  /\ UNCHANGED <<cached_scripts, now, fetchSeq, task, prev, calc, engine>>

(* no update needed: the stored id is read *)
ReadVisitorId(c) ==
  /\ http.caller[c].pc = "read"
  /\ http' = [http EXCEPT !.caller[c].pc = "returned",
                          !.caller[c].out = Some(http.visitor_id)]
  /\ UNCHANGED <<cached_scripts, now, fetchSeq, task, prev, calc, engine>>

VisitorIdTaken(c) ==
  /\ http.caller[c].pc = "returned"
  /\ http' = [http EXCEPT !.caller[c] = IdleCaller]
  /\ UNCHANGED <<cached_scripts, now, fetchSeq, task, prev, calc, engine>>

(* the system time advances, by a second or by a refresh interval *)
Advance(d) ==
  /\ IF d = 1
       THEN (now - TrackerStart) % VISITOR_ID_REFRESH_INTERVAL < MaxSeconds
       ELSE now + d <= TrackerStart
                         + MaxIntervals * VISITOR_ID_REFRESH_INTERVAL
                         + MaxSeconds
  /\ now' = now + d
  /\ UNCHANGED <<cached_scripts, fetchSeq, task, prev, calc, engine, http>>

TrackerNext ==
  \/ \E c \in Callers : GetVisitorId(c)
  \/ \E c \in Callers : Acquire(c)
  \/ \E c \in Callers, ok \in BOOLEAN : VisitorFetched(c, ok)
  \/ \E c \in Callers : ReadVisitorId(c)
  \/ \E c \in Callers : VisitorIdTaken(c)
  \/ \E d \in {1, VISITOR_ID_REFRESH_INTERVAL} : Advance(d)

TrackerSpec == TrackerInit /\ [][TrackerNext]_vars

(* C29: no two fetches are issued less than the refresh interval apart:    *)
(* the caller that gets the token lock second finds the timestamp of the   *)
(* first in its second check and does not fetch.                           *)
C29_OneFetchPerInterval ==
  \A i, j \in 1..Len(http.fetches) :
    i < j => http.fetches[j] - http.fetches[i] >= VISITOR_ID_REFRESH_INTERVAL

(***************************************************************************)
(* http/oauth.rs: YoutubeOauth2Handler, the access token and apply_token.  *)
(* Here http is the handler: enabled, refresh_token, access_token and      *)
(* fetch_error_count are its fields; granted is the expiry time that       *)
(* update_tokens computed for the stored access token (the lifetime the    *)
(* token endpoint granted, less the buffer), kept apart from expires_at so *)
(* that the two can be compared; request is the last request that went     *)
(* through apply_token, with the time of the call, its Authorization       *)
(* header and the granted expiry of the token the header carries.          *)
(***************************************************************************)
MaxOauthTicks == 8
MaxFetchErrors == 4

OauthTick == 5
OauthStart == 1000
TOKEN_BUFFER == 60
RETRY_WINDOW == 15

(* expires_in of the token responses *)
ExpiresIns == {30, 75, 90}

(* refresh tokens: none, blank, usable *)
RefreshTokens == {None, Some(" "), Some("refresh")}

TokenResponses ==
  [access_token : {"access"}, token_type : {"Bearer"},
   expires_in : ExpiresIns, refresh_token : {None, Some("refresh")}]

(* create_new_access_token: a token response or an error *)
TokenResults == {Ok(r) : r \in TokenResponses} \cup {Err("HttpError")}

NoRequest == [at |-> 0, authorization |-> None, granted |-> 0]

NewOauth2Handler ==
  [component |-> "oauth", enabled |-> FALSE, refresh_token |-> None,
   access_token |-> None, fetch_error_count |-> 0, granted |-> 0,
   request |-> NoRequest]

OauthInit ==
  /\ cached_scripts = [u \in Urls |-> None]
  /\ now = OauthStart
  /\ fetchSeq = 0
  /\ task = [t \in Tasks |-> IdleTask]
  /\ prev = IdleTask
  /\ calc = NoCalc
  /\ engine = NewEngine
  /\ http = NewOauth2Handler

(* t.trim().is_empty() is false *)
HasRefreshToken(h) ==
  IsSome(h.refresh_token) /\ Get(h.refresh_token) # " "

(* AccessToken::is_expired *)
is_expired(token, time) == time >= token.expires_at

should_refresh_access_token(h, time) ==
  /\ h.enabled
  /\ HasRefreshToken(h)
  /\ (IsSome(h.access_token) => is_expired(Get(h.access_token), time))

update_tokens(h, token_response, time) ==
  LET expires_at == time + token_response.expires_in - TOKEN_BUFFER
  IN [h EXCEPT
        !.access_token =
          Some([token |-> token_response.access_token,
                token_type |-> token_response.token_type,
                expires_at |-> expires_at,
                refresh_token |-> token_response.refresh_token]),
        !.granted = expires_at,
        !.refresh_token = IF IsSome(token_response.refresh_token)
                            THEN token_response.refresh_token ELSE @]

(* refresh_access_token: the handler afterwards and whether it returned Ok; *)
(* created is what create_new_access_token returns if it is called          *)
refresh_access_token(h, force, created, time) ==
  IF ~HasRefreshToken(h)
    THEN [handler |-> h, ok |-> FALSE]
    ELSE IF ~should_refresh_access_token(h, time) /\ ~force
      THEN [handler |-> h, ok |-> TRUE]
      ELSE IF created.ok
        THEN [handler |-> [update_tokens(h, created.val, time)
                             EXCEPT !.fetch_error_count = 0],
              ok |-> TRUE]
        ELSE [handler |-> h, ok |-> FALSE]

(* set_refresh_token with skip_initialization: the device flow is not      *)
(* started                                                                 *)
SetRefreshToken(refresh_token, created) ==
  /\ LET cleared == [http EXCEPT !.refresh_token = refresh_token,
                                 !.access_token = None,
                                 !.granted = 0]
         refreshed == refresh_access_token(cleared, TRUE, created, now)
     IN http' = IF HasRefreshToken(cleared)
                  THEN IF refreshed.ok
                         THEN [refreshed.handler EXCEPT !.enabled = TRUE]
                         ELSE refreshed.handler
                  ELSE cleared
  /\ UNCHANGED <<cached_scripts, now, fetchSeq, task, prev, calc, engine>>

(* the Authorization header apply_token gives the request *)
Authorize(h, time) ==
  IF IsSome(h.access_token) /\ ~is_expired(Get(h.access_token), time)
    THEN [at |-> time,
          authorization |-> Some(<<Get(h.access_token).token_type,
                                   Get(h.access_token).token>>),
          granted |-> h.granted]
    ELSE [at |-> time, authorization |-> None, granted |-> 0]

ApplyToken(created) ==
  /\ http.fetch_error_count < MaxFetchErrors
  /\ LET unauthorized == [at |-> now, authorization |-> None, granted |-> 0]
         refreshed == refresh_access_token(http, FALSE, created, now)
         failed == refreshed.handler
     IN http' =
          IF ~http.enabled \/ ~HasRefreshToken(http)
            THEN [http EXCEPT !.request = unauthorized]
            ELSE IF should_refresh_access_token(http, now) /\ ~refreshed.ok
              THEN [failed EXCEPT
                      !.fetch_error_count = @ + 1,
                      !.access_token =
                        IF IsSome(@)
                          THEN Some([Get(@) EXCEPT
                                       !.expires_at = now + RETRY_WINDOW])
                          ELSE @,
                      !.request = unauthorized]
              ELSE [refreshed.handler EXCEPT
                      !.request = Authorize(refreshed.handler, now)]
  /\ UNCHANGED <<cached_scripts, now, fetchSeq, task, prev, calc, engine>>

(* the system time advances *)
OauthElapse ==
  /\ now < OauthStart + MaxOauthTicks * OauthTick
  /\ now' = now + OauthTick
  /\ UNCHANGED <<cached_scripts, fetchSeq, task, prev, calc, engine, http>>

OauthNext ==
  \/ \E r \in RefreshTokens, created \in TokenResults :
       SetRefreshToken(r, created)
  \/ \E created \in TokenResults : ApplyToken(created)
  \/ OauthElapse

OauthSpec == OauthInit /\ [][OauthNext]_vars

(* C30: a request that apply_token gave an Authorization header was given  *)
(* it at a time before the expiry that update_tokens computed for the      *)
(* token (the granted lifetime less the buffer); in particular no request  *)
(* after a failed refresh carries the expired token.                       *)
C30_HeaderOnlyWithinGrantedLifetime ==
  IsSome(http.request.authorization) => http.request.at < http.request.granted
====
